---- MODULE Spec2Model ----
(***************************************************************************)
(* Verification model of the weekend-planner backend: the search handler   *)
(* with its stale-while-revalidate cache (search.routes.ts), the           *)
(* CacheService on top of Redis (cache.service.ts), and the cache-key      *)
(* normalisation helpers.                                                   *)
(*                                                                         *)
(* Node runs every handler on one event loop: a handler runs without       *)
(* interruption between two awaits, and Redis executes one command at a    *)
(* time.  Each action below is therefore one Redis command or one awaited  *)
(* call (runOnlineIngest, searchUnifiedFromDb) together with the           *)
(* synchronous code that follows it up to the next await.                  *)
(***************************************************************************)
EXTENDS Integers, Sequences, FiniteSets, TLC

\* ------------------------------------------------------------------------
\* Bounds of the model
\* ------------------------------------------------------------------------
\* Number of concurrent search requests.
NumReq == 2
\* pagination.page is drawn from 1..MaxPage.
MaxPage == 2
\* Number of withLock calls on one lock key in the lock specification.
NumCallers == 3

\* The cache specification stores under the keys 1..NumKeys, values 1..MaxVal.
NumKeys == 2
MaxVal == 2
\* Time advances in steps of TickSeconds; TTL arguments are 0..MaxTtlTicks steps.
TickSeconds == 300
MaxTtlTicks == 1

\* filters.categorySlugs holds up to MaxArr of the slugs 1..NumSlugs (numbered
\* in their string order).
NumSlugs == 2
MaxArr == 2

Reqs == 1..NumReq
Pages == 1..MaxPage
Callers == 1..NumCallers
CKeys == 1..NumKeys
Vals == 1..MaxVal
TtlChoices == {i * TickSeconds : i \in 0..MaxTtlTicks}

\* A Redis key that does not exist reads as the empty sequence; a stored
\* value v is <<v>>.
Absent == <<>>

\* The search specification runs NumReq concurrent requests that carry the
\* same query, hence the same cache key; requests for other keys share no
\* Redis key with them.
VARIABLES
    enabled,   \* CacheService.enabled: redis present and CACHE_ENABLED
    page,      \* pagination.page of the query
    reqs,      \* per request: handler position, locals and bookkeeping
    redis,     \* the query's Redis keys: data (cacheKey), fresh (cacheKey:fresh),
               \* lock (cacheKey:lock)
    db,        \* version of the persisted store that searchUnifiedFromDb reads
    redisDown  \* Redis is unreachable: every command sent to it rejects

\* The lock specification runs NumCallers calls of CacheService.withLock on
\* one lock key (redis.lock), each with a protected function that may resolve
\* or throw.
VARIABLES
    calls,     \* per withLock call: its position
    expiries   \* how many times the lock key's TTL has run out while it existed

\* The cache specification has one client call CacheService's setJSON,
\* setJSONWithSWR, getJSONWithSWR and invalidateByTags (with the one tag t) one
\* after the other, as the unit tests do, while time passes.
VARIABLES
    store,     \* Redis string keys: the data key of each cache key
    marker,    \* Redis string keys: the ':fresh' key of each cache key
    index,     \* the Redis set ns:index:t of the tag, with its TTL
    obs,       \* the latest setJSONWithSWR call: its arguments and its age
    got,       \* what the latest getJSONWithSWR returned
    invalidated \* invalidateByTags([t]) has just returned (no call or tick since)

cacheVars == <<store, marker, index, obs, got, invalidated>>

\* The key specification takes one search request body and builds its cache
\* key as the handler does.
VARIABLES
    query,     \* the validated request body
    builtKey   \* the cache key the handler built for it (Absent before)

keyVars == <<query, builtKey>>

\* The merge specification calls IngestionMergeService.buildPlaceUpdate or
\* buildEventUpdate once on given arguments.
VARIABLES
    mergeIn,   \* the arguments of the call, and the time of the data on record
    mergeOut   \* the call's result, once it has returned

mergeVars == <<mergeIn, mergeOut>>

\* The ingestion specification has one client call the dedup service
\* (matchOrCreatePlace, matchOrCreateEvent) and the persist service
\* (ingestPlaces, ingestEvents) one call after the other on one database.
VARIABLES
    prisma,    \* the database: the rows of each table, in order of creation
    run,       \* the latest call: its arguments, its result, the database before it
    prev,      \* the call before the latest
    nCalls     \* how many calls have been made

ingestVars == <<prisma, run, prev, nCalls>>

\* The scoring specification calls IngestionScoringService.scoreByCanonicalId
\* once on one canonical id.
VARIABLES
    scoreIn,   \* per seed of the id: the first four bytes of its SHA-256 digest,
               \* read as an unsigned integer, as <<high, low>> 16-bit halves
    scoreOut   \* the score triple the call returned (Absent before)

scoreVars == <<scoreIn, scoreOut>>

\* The orchestration specification runs runOnlineIngest once over given
\* provider adapters; the adapters' promises settle in any order.
VARIABLES
    fanIn,     \* per adapter: its kind, name and source, and how its search goes
    settled,   \* per adapter: how its promise settled (Absent before)
    warnings,  \* runOnlineIngest's warnings array
    persisted  \* the calls made to Persist, in order (Absent until they are made)

fanVars == <<fanIn, settled, warnings, persisted>>

\* The nearest-place specification calls the dedup service's
\* findNearestPlaceByGeoAndName once, as matchOrCreatePlace does for a
\* candidate with coordinates that no source row matches.
VARIABLES
    nearIn,    \* the incoming name, and the places the prefilter query returned
    nearOut    \* what the heuristic step came to (Absent before)

nearVars == <<nearIn, nearOut>>

\* The category specification calls the persist service's
\* upsertPlaceCategories / upsertEventCategories once on one canonical record.
VARIABLES
    catIn,     \* the record's category fields and the arguments of the call
    catOut     \* the record after the call (Absent before)

catVars == <<catIn, catOut>>

\* The city specification runs the city enrichment of runOnlineIngest on
\* one candidate.
VARIABLES
    cityIn,    \* the candidate, the query's city and the rows of the city table
    cityOut    \* the candidate after the enrichment (Absent before)

cityVars == <<cityIn, cityOut>>

\* The race specification interleaves the per-item pipelines of concurrently
\* running ingestEvents batches at their awaits.
VARIABLES
    raceDb,    \* the event, link, occurrence and source tables the batches share
    workers,   \* per batch: its candidate, its position and what it has read
    overlap    \* a batch took a step while another one was under way

raceVars == <<raceDb, workers, overlap>>

vars == <<enabled, redisDown, page, reqs, redis, db, calls, expiries, cacheVars, keyVars, mergeVars,
         ingestVars, scoreVars, fanVars,
      nearVars,
      catVars,
      cityVars,
      raceVars>>

\* The variables each specification leaves alone.
outsideSearch ==
    <<calls, expiries, cacheVars, keyVars, mergeVars, ingestVars,
      scoreVars, fanVars,
      nearVars,
      catVars,
      cityVars,
      raceVars>>
outsideLock ==
    <<redisDown, page, reqs, db, cacheVars, keyVars, mergeVars, ingestVars,
      scoreVars, fanVars,
      nearVars,
      catVars,
      cityVars,
      raceVars>>
outsideCache ==
    <<enabled, redisDown, page, reqs, redis, db, calls, expiries, keyVars, mergeVars, ingestVars,
      scoreVars, fanVars,
      nearVars,
      catVars,
      cityVars,
      raceVars>>
outsideKey ==
    <<enabled, redisDown, page, reqs, redis, db, calls, expiries, cacheVars, mergeVars, ingestVars,
      scoreVars, fanVars,
      nearVars,
      catVars,
      cityVars,
      raceVars>>
outsideIngest ==
    <<enabled, redisDown, page, reqs, redis, db, calls, expiries, cacheVars, keyVars, mergeVars,
      scoreVars, fanVars,
      nearVars,
      catVars,
      cityVars,
      raceVars>>
outsideScore ==
    <<enabled, redisDown, page, reqs, redis, db, calls, expiries, cacheVars, keyVars, mergeVars,
      ingestVars, fanVars,
      nearVars,
      catVars,
      cityVars,
      raceVars>>
outsideFan ==
    <<enabled, redisDown, page, reqs, redis, db, calls, expiries, cacheVars, keyVars, mergeVars,
      ingestVars, scoreVars,
      nearVars,
      catVars,
      cityVars,
      raceVars>>
outsideNear ==
    <<enabled, redisDown, page, reqs, redis, db, calls, expiries, cacheVars, keyVars, mergeVars,
      ingestVars, scoreVars, fanVars,
      catVars,
      cityVars,
      raceVars>>
outsideCat ==
    <<enabled, redisDown, page, reqs, redis, db, calls, expiries, cacheVars, keyVars, mergeVars,
      ingestVars, scoreVars, fanVars, nearVars,
      cityVars,
      raceVars>>
outsideCity ==
    <<enabled, redisDown, page, reqs, redis, db, calls, expiries, cacheVars, keyVars, mergeVars,
      ingestVars, scoreVars, fanVars, nearVars, catVars,
      raceVars>>
outsideRace ==
    <<enabled, redisDown, page, reqs, redis, db, calls, expiries, cacheVars, keyVars, mergeVars,
      ingestVars, scoreVars, fanVars, nearVars, catVars, cityVars>>
outsideMerge ==
    <<enabled, redisDown, page, reqs, redis, db, calls, expiries, cacheVars, keyVars, ingestVars,
      scoreVars, fanVars,
      nearVars,
      catVars,
      cityVars,
      raceVars>>

\* ------------------------------------------------------------------------
\* search.routes.ts: the handler's pure helpers
\* ------------------------------------------------------------------------
\* (variant: the gate is off by one and lets page 2 ingest)
isFirstPageOffByOne(p) == p <= 2

\* const isFirstPage = effPage <= 1;
isFirstPage(p) == p <= 1

\* What a request does after a cache miss: ingest on the first page only.
AfterMiss(p) == IF isFirstPage(p) THEN "ingest" ELSE "dbread"

NewReq == [pc |-> "idle", path |-> "none", err |-> "none", cached |-> Absent,
           resp |-> Absent, val |-> Absent, fgIngest |-> 0, fgDb |-> 0,
           bg |-> "none", bgVal |-> Absent, bgIngest |-> 0, bgDb |-> 0,
           bgStores |-> 0, workAtResp |-> 0]

SearchStart ==
    /\ enabled \in BOOLEAN
    /\ page \in Pages
    /\ reqs = [r \in Reqs |-> NewReq]
    \* Redis outlives the requests: the entry of the key may be absent, stale
    \* or fresh when the requests arrive.
    /\ \E d \in {Absent, <<0>>}, f \in BOOLEAN :
          /\ f => d # Absent
          /\ redis = [data |-> d, fresh |-> f, lock |-> FALSE]
    /\ db = 0

\* Redis is reachable throughout.
SearchInit == SearchStart /\ redisDown = FALSE

\* No request is being served (the state of the search variables in the
\* specifications that do not run the handler).
SearchIdle ==
    /\ redisDown = FALSE
    /\ page = 1
    /\ reqs = [r \in Reqs |-> NewReq]
    /\ db = 0

\* Update of one request's record / of one Redis key.
SetReq(r, rec) == reqs' = [reqs EXCEPT ![r] = rec]
SetRedis(field, v) == redis' = [redis EXCEPT ![field] = v]

\* ------------------------------------------------------------------------
\* cache.service.ts: CacheService as the search handler uses it
\* ------------------------------------------------------------------------
\* (variant: the NX flag is missing, the SET always succeeds)
SetAlwaysAcquires(held) == TRUE

\* withLock: const ok = await redis.set(lockKey, '1', 'EX', CACHE_LOCK_TTL, 'NX');
\* the reply is OK exactly when the key did not exist.
SetNXAcquires(held) == ~held

\* getJSONWithSWR, second command: stale: fresh === 0
IsStale(freshMarker) == ~freshMarker

\* ------------------------------------------------------------------------
\* search.routes.ts: the POST /api/search handler
\* ------------------------------------------------------------------------
\* A request arrives; with the cache disabled the handler goes
\* straight to the miss path (if (cache.isEnabled()) { ... }).
Arrive(r) ==
    /\ reqs[r].pc = "idle"
    /\ SetReq(r, [reqs[r] EXCEPT
                    !.pc = IF enabled THEN "get" ELSE AfterMiss(page),
                    !.path = IF enabled THEN "none" ELSE "miss"])
    /\ UNCHANGED <<enabled, redisDown, page, redis, db, outsideSearch>>

\* getJSONWithSWR, first command: const raw = await redis.get(key);
\* if (!raw) return null  -> the handler falls through to the miss path.
\* The command stands outside the method's try block and the handler awaits
\* the method outside any try block: its rejection rejects the handler.
CacheGet(r) ==
    /\ reqs[r].pc = "get"
    /\ LET raw == redis.data IN
       IF redisDown
       THEN SetReq(r, [reqs[r] EXCEPT !.pc = "failed", !.err = "redis"])
       ELSE IF raw = Absent
       THEN SetReq(r, [reqs[r] EXCEPT !.pc = AfterMiss(page), !.path = "miss"])
       ELSE SetReq(r, [reqs[r] EXCEPT !.pc = "exists", !.cached = raw])
    /\ UNCHANGED <<enabled, redisDown, page, redis, db, outsideSearch>>

\* (variant: the stale branch lacks its return and the handler goes on
\* to recompute before it answers)
CacheExistsFallsThrough(r) ==
    /\ reqs[r].pc = "exists"
    /\ IF IsStale(redis.fresh)
       THEN SetReq(r, [reqs[r] EXCEPT !.pc = AfterMiss(page), !.path = "stale",
                       !.bg = "acquire"])
       ELSE SetReq(r, [reqs[r] EXCEPT !.pc = "done", !.path = "fresh",
                       !.resp = reqs[r].cached])
    /\ UNCHANGED <<enabled, redisDown, page, redis, db, outsideSearch>>

\* getJSONWithSWR, second command: await redis.exists(`${key}:fresh`), then
\* the handler: a fresh entry is returned; a stale entry is returned as well,
\* after cache.withLock(...) has been called without being awaited (void):
\* the SET NX command is sent and the refresh continues as a background task.
\* A rejection of EXISTS is caught inside getJSONWithSWR, which returns null.
CacheExists(r) ==
    /\ reqs[r].pc = "exists"
    /\ IF redisDown
       THEN SetReq(r, [reqs[r] EXCEPT !.pc = AfterMiss(page), !.path = "miss"])
       ELSE IF IsStale(redis.fresh)
       THEN SetReq(r, [reqs[r] EXCEPT !.pc = "done", !.path = "stale",
                       !.resp = reqs[r].cached, !.bg = "acquire",
                       !.workAtResp = reqs[r].fgIngest + reqs[r].fgDb
                                      + reqs[r].bgIngest + reqs[r].bgDb])
       ELSE SetReq(r, [reqs[r] EXCEPT !.pc = "done", !.path = "fresh",
                       !.resp = reqs[r].cached])
    /\ UNCHANGED <<enabled, redisDown, page, redis, db, outsideSearch>>

\* Miss path: await runOnlineIngest(...) inside try/catch; whether it
\* returns or throws, the handler goes on to the DB read.  The ingest may have
\* written new records (the store's version rises).
Ingest(r) ==
    /\ reqs[r].pc = "ingest"
    /\ SetReq(r, [reqs[r] EXCEPT !.pc = "dbread", !.fgIngest = @ + 1])
    /\ \E wrote \in BOOLEAN :
          db' = IF wrote THEN db + 1 ELSE db
    /\ UNCHANGED <<enabled, redisDown, page, redis, outsideSearch>>

\* const resp = await searchUnifiedFromDb(query, app.prisma): a rejection
\* is not caught and fails the request; otherwise the response is stored in
\* the cache if it is enabled, and returned.
DbRead(r) ==
    /\ reqs[r].pc = "dbread"
    /\ \E ok \in BOOLEAN :
          IF ok
          THEN SetReq(r, [reqs[r] EXCEPT !.val = <<db>>, !.fgDb = @ + 1,
                          !.pc = IF enabled THEN "store1" ELSE "done",
                          !.resp = IF enabled THEN @ ELSE <<db>>])
          ELSE SetReq(r, [reqs[r] EXCEPT !.pc = "failed", !.err = "db"])
    /\ UNCHANGED <<enabled, redisDown, page, redis, db, outsideSearch>>

\* setJSONWithSWR, first command: redis.set(key, payload, 'EX', totalTtl).
\* The handler wraps the call in try { ... } catch {}: a rejected command
\* ends the store and resp is returned.
Store1(r) ==
    /\ reqs[r].pc = "store1"
    /\ IF redisDown
       THEN /\ SetReq(r, [reqs[r] EXCEPT !.pc = "done", !.resp = reqs[r].val])
            /\ UNCHANGED redis
       ELSE /\ SetRedis("data", reqs[r].val)
            /\ SetReq(r, [reqs[r] EXCEPT !.pc = "store2"])
    /\ UNCHANGED <<enabled, redisDown, page, db, outsideSearch>>

\* setJSONWithSWR, second command: redis.set(freshKey, '1', 'EX', ttlSeconds);
\* the query names no city, so there are no tags to index; return resp.
Store2(r) ==
    /\ reqs[r].pc = "store2"
    /\ IF redisDown THEN UNCHANGED redis ELSE SetRedis("fresh", TRUE)
    /\ SetReq(r, [reqs[r] EXCEPT !.pc = "done", !.resp = reqs[r].val])
    /\ UNCHANGED <<enabled, redisDown, page, db, outsideSearch>>

\* ---- the background refresh of a stale entry: cache.withLock(lockKey, fn) ----
\* withLock: SET lockKey NX EX CACHE_LOCK_TTL; if (!ok) return null, without
\* calling fn; otherwise fn starts (ingest first when isFirstPage).  A
\* rejected SET rejects the promise of withLock, which nobody awaits.
BgAcquire(r) ==
    /\ reqs[r].bg = "acquire"
    /\ IF redisDown
       THEN /\ SetReq(r, [reqs[r] EXCEPT !.bg = "rejected"])
            /\ UNCHANGED redis
       ELSE IF SetNXAcquires(redis.lock)
       THEN /\ SetRedis("lock", TRUE)
            /\ SetReq(r, [reqs[r] EXCEPT !.bg = AfterMiss(page)])
       ELSE /\ SetReq(r, [reqs[r] EXCEPT !.bg = "skipped"])
            /\ UNCHANGED redis
    /\ UNCHANGED <<enabled, redisDown, page, db, outsideSearch>>

\* fn: if (isFirstPage) { ... await runOnlineIngest(...) ... } inside try/catch.
BgIngest(r) ==
    /\ reqs[r].bg = "ingest"
    /\ SetReq(r, [reqs[r] EXCEPT !.bg = "dbread", !.bgIngest = @ + 1])
    /\ \E wrote \in BOOLEAN :
          db' = IF wrote THEN db + 1 ELSE db
    /\ UNCHANGED <<enabled, redisDown, page, redis, outsideSearch>>

\* fn: const freshResp = await searchUnifiedFromDb(query, app.prisma); a
\* rejection is swallowed by the outer try/catch and nothing is stored.
BgDbRead(r) ==
    /\ reqs[r].bg = "dbread"
    /\ \E ok \in BOOLEAN :
          IF ok
          THEN SetReq(r, [reqs[r] EXCEPT !.bgVal = <<db>>, !.bgDb = @ + 1,
                          !.bg = "store1"])
          ELSE SetReq(r, [reqs[r] EXCEPT !.bg = "release"])
    /\ UNCHANGED <<enabled, redisDown, page, redis, db, outsideSearch>>

\* fn: await cache.setJSONWithSWR(cacheKey, recompute, ttl, CACHE_SWR_SEARCH, tags)
BgStore1(r) ==
    /\ reqs[r].bg = "store1"
    /\ IF redisDown
       THEN /\ SetReq(r, [reqs[r] EXCEPT !.bg = "release"])
            /\ UNCHANGED redis
       ELSE /\ SetRedis("data", reqs[r].bgVal)
            /\ SetReq(r, [reqs[r] EXCEPT !.bg = "store2", !.bgStores = @ + 1])
    /\ UNCHANGED <<enabled, redisDown, page, db, outsideSearch>>

BgStore2(r) ==
    /\ reqs[r].bg = "store2"
    /\ IF redisDown THEN UNCHANGED redis ELSE SetRedis("fresh", TRUE)
    /\ SetReq(r, [reqs[r] EXCEPT !.bg = "release"])
    /\ UNCHANGED <<enabled, redisDown, page, db, outsideSearch>>

\* withLock: finally { await redis.del(lockKey).catch(() => {}) }
BgRelease(r) ==
    /\ reqs[r].bg = "release"
    /\ IF redisDown THEN UNCHANGED redis ELSE SetRedis("lock", FALSE)
    /\ SetReq(r, [reqs[r] EXCEPT !.bg = "done"])
    /\ UNCHANGED <<enabled, redisDown, page, db, outsideSearch>>

\* ---- time passing: Redis drops a key whose TTL has run out ----
\* The freshness marker (TTL ttl) goes before the data key (TTL ttl + swr).
ExpireFresh ==
    /\ redis.fresh
    /\ SetRedis("fresh", FALSE)
    /\ UNCHANGED <<enabled, redisDown, page, reqs, db, outsideSearch>>

ExpireData ==
    /\ redis.data # Absent
    /\ ~redis.fresh
    /\ SetRedis("data", Absent)
    /\ UNCHANGED <<enabled, redisDown, page, reqs, db, outsideSearch>>

\* The lock key carries TTL CACHE_LOCK_TTL and nothing renews it: it goes
\* when that time has passed, however far the refresh has got.
ExpireLock ==
    /\ redis.lock
    /\ SetRedis("lock", FALSE)
    /\ UNCHANGED <<enabled, redisDown, page, reqs, db, outsideSearch>>

SearchNext ==
    \/ \E r \in Reqs : Arrive(r)
    \/ \E r \in Reqs : CacheGet(r)
    \/ \E r \in Reqs : CacheExists(r)
    \/ \E r \in Reqs : Ingest(r)
    \/ \E r \in Reqs : DbRead(r)
    \/ \E r \in Reqs : Store1(r)
    \/ \E r \in Reqs : Store2(r)
    \/ \E r \in Reqs : BgAcquire(r)
    \/ \E r \in Reqs : BgIngest(r)
    \/ \E r \in Reqs : BgDbRead(r)
    \/ \E r \in Reqs : BgStore1(r)
    \/ \E r \in Reqs : BgStore2(r)
    \/ \E r \in Reqs : BgRelease(r)
    \/ ExpireFresh
    \/ ExpireData
    \/ ExpireLock

\* ---- Redis becomes unreachable, or reachable again, at any moment ----
RedisGoesDown ==
    /\ enabled /\ ~redisDown
    /\ redisDown' = TRUE
    /\ UNCHANGED <<enabled, page, reqs, redis, db, outsideSearch>>

RedisComesBack ==
    /\ redisDown
    /\ redisDown' = FALSE
    /\ UNCHANGED <<enabled, page, reqs, redis, db, outsideSearch>>

OutageNext ==
    \/ SearchNext
    \/ RedisGoesDown
    \/ RedisComesBack

\* ------------------------------------------------------------------------
\* cache.service.ts: CacheService.withLock with an arbitrary protected function
\* ------------------------------------------------------------------------
NewCall == [pc |-> "idle", after |-> FALSE]

LockIdle ==
    /\ calls = [c \in Callers |-> NewCall]
    /\ expiries = 0

LockInit ==
    /\ enabled \in BOOLEAN
    /\ redis = [data |-> Absent, fresh |-> FALSE, lock |-> FALSE]
    /\ LockIdle
    /\ SearchIdle

SetCall(c, rec) == calls' = [calls EXCEPT ![c] = rec]

\* withLock is called: if (!this.enabled || !this.redis) return await fn();
\* otherwise the SET NX command is sent.  "after" notes that an earlier call
\* had already ended with its function's exception.
LockCall(c) ==
    /\ calls[c].pc = "idle"
    /\ SetCall(c, [pc |-> IF enabled THEN "acquire" ELSE "running",
                    after |-> \E d \in Callers : calls[d].pc = "rejected"])
    /\ UNCHANGED <<enabled, redis, expiries, outsideLock>>

\* const ok = await redis.set(lockKey, '1', 'EX', CACHE_LOCK_TTL, 'NX');
\* if (!ok) return null;   otherwise fn is started.
LockAcquire(c) ==
    /\ calls[c].pc = "acquire"
    /\ IF SetNXAcquires(redis.lock)
       THEN /\ SetRedis("lock", TRUE)
            /\ SetCall(c, [calls[c] EXCEPT !.pc = "running"])
       ELSE /\ SetCall(c, [calls[c] EXCEPT !.pc = "null"])
            /\ UNCHANGED redis
    /\ UNCHANGED <<enabled, expiries, outsideLock>>

\* await fn(): the protected function resolves or throws.  Without the
\* cache its outcome is withLock's outcome; with it the finally block follows.
FnSettles(c) ==
    /\ calls[c].pc = "running"
    /\ \E ok \in BOOLEAN :
          SetCall(c, [calls[c] EXCEPT !.pc =
              IF enabled THEN (IF ok THEN "resolved" ELSE "threw")
              ELSE (IF ok THEN "returned" ELSE "rejected")])
    /\ UNCHANGED <<enabled, redis, expiries, outsideLock>>

\* (variant: the DEL sits after the await instead of in a finally
\* block, so an exception of fn skips it)
LockReleaseSkippedOnThrow(c) ==
    /\ calls[c].pc \in {"resolved", "threw"}
    /\ IF calls[c].pc = "resolved"
       THEN SetRedis("lock", FALSE) /\ SetCall(c, [calls[c] EXCEPT !.pc = "returned"])
       ELSE UNCHANGED redis /\ SetCall(c, [calls[c] EXCEPT !.pc = "rejected"])
    /\ UNCHANGED <<enabled, expiries, outsideLock>>

\* finally { await this.redis!.del(lockKey).catch(() => {}); }: the key is
\* deleted whoever set it, then fn's value or exception is passed on.
LockRelease(c) ==
    /\ calls[c].pc \in {"resolved", "threw"}
    /\ SetRedis("lock", FALSE)
    /\ SetCall(c, [calls[c] EXCEPT !.pc =
                      IF calls[c].pc = "resolved" THEN "returned" ELSE "rejected"])
    /\ UNCHANGED <<enabled, expiries, outsideLock>>

\* The lock key was set with EX CACHE_LOCK_TTL: Redis drops it when that
\* time has passed, whether or not the function that it protects has settled.
LockExpires ==
    /\ redis.lock
    /\ SetRedis("lock", FALSE)
    /\ expiries' = expiries + 1
    /\ UNCHANGED <<enabled, calls, outsideLock>>

LockNext ==
    \/ \E c \in Callers : LockCall(c)
    \/ \E c \in Callers : LockAcquire(c)
    \/ \E c \in Callers : FnSettles(c)
    \/ \E c \in Callers : LockRelease(c)
    \/ LockExpires

\* ------------------------------------------------------------------------
\* Redis string keys with a time to live, for the cache specification
\* ------------------------------------------------------------------------
NoKey == [present |-> FALSE, val |-> 0, tagged |-> FALSE, hasTtl |-> FALSE, ttl |-> 0]

\* SET key val EX seconds / SET key val.  "tagged" notes whether the call that
\* wrote the value passed the tag (a note of the model, not a Redis field).
RedisSetEx(v, tg, seconds) ==
    [present |-> TRUE, val |-> v, tagged |-> tg, hasTtl |-> TRUE, ttl |-> seconds]
RedisSet(v, tg) ==
    [present |-> TRUE, val |-> v, tagged |-> tg, hasTtl |-> FALSE, ttl |-> 0]

\* A key after dt seconds: gone once its TTL has run out.
Aged(e, dt) ==
    IF e.present /\ e.hasTtl
    THEN (IF e.ttl - dt <= 0 THEN NoKey ELSE [e EXCEPT !.ttl = e.ttl - dt])
    ELSE e

NoIndex == [members |-> {}, hasTtl |-> FALSE, ttl |-> 0]

AgedIndex(ix, dt) ==
    IF ix.members # {} /\ ix.hasTtl
    THEN (IF ix.ttl - dt <= 0 THEN NoIndex ELSE [ix EXCEPT !.ttl = ix.ttl - dt])
    ELSE ix

Max(a, b) == IF a >= b THEN a ELSE b
Min(a, b) == IF a <= b THEN a ELSE b

\* Floor of the index set's TTL: Math.max(ttl, 600)
IndexMinTtl == 600

\* Tag indexing of setJSON / setJSONWithSWR for tags = [t]:
\*   await redis.sadd(setKey, key);
\*   if (ttl > 0) await redis.expire(setKey, Math.max(ttl, 600));
\* SADD creates the set without a TTL; EXPIRE replaces the set's TTL.
IndexAdd(ix, k, ttl) ==
    [members |-> ix.members \cup {k},
     hasTtl  |-> IF ttl > 0 THEN TRUE ELSE (ix.members # {} /\ ix.hasTtl),
     ttl     |-> IF ttl > 0 THEN Max(ttl, IndexMinTtl)
                 ELSE (IF ix.members # {} /\ ix.hasTtl THEN ix.ttl ELSE 0)]

NoObs == [active |-> FALSE, key |-> 0, data |-> 0, f |-> 0, s |-> 0, age |-> 0]
NotFound == [found |-> FALSE, data |-> 0, stale |-> FALSE]

CacheInit ==
    /\ store = [k \in CKeys |-> NoKey]
    /\ marker = [k \in CKeys |-> NoKey]
    /\ index = NoIndex
    /\ obs = NoObs
    /\ got = NotFound
    /\ invalidated = FALSE

\* ------------------------------------------------------------------------
\* cache.service.ts: CacheService on that Redis (cache enabled)
\* ------------------------------------------------------------------------
\* setJSON(key, data, { ttlSeconds, tags }); tags is [] or [t].
SetJSON(k, v, ttl, tg) ==
    /\ store' = [store EXCEPT ![k] =
                    IF ttl > 0 THEN RedisSetEx(v, tg, ttl) ELSE RedisSet(v, tg)]
    /\ index' = IF tg THEN IndexAdd(index, k, ttl) ELSE index
    /\ obs' = IF obs.active /\ obs.key = k THEN NoObs ELSE obs
    /\ invalidated' = FALSE
    /\ UNCHANGED <<marker, got, outsideCache>>

\* setJSONWithSWR(key, data, ttlSeconds, swrSeconds, tags)
SetJSONWithSWR(k, v, f, sw, tg) ==
    LET totalTtl == Max(0, f + Max(0, sw)) IN
    /\ store' = [store EXCEPT ![k] =
                    IF totalTtl > 0 THEN RedisSetEx(v, tg, totalTtl) ELSE RedisSet(v, tg)]
    /\ marker' = [marker EXCEPT ![k] =
                    IF f > 0 THEN RedisSetEx(1, FALSE, f) ELSE RedisSet(1, FALSE)]
    /\ index' = IF tg THEN IndexAdd(index, k, totalTtl) ELSE index
    /\ obs' = [active |-> TRUE, key |-> k, data |-> v, f |-> f, s |-> sw, age |-> 0]
    /\ invalidated' = FALSE
    /\ UNCHANGED <<got, outsideCache>>

\* getJSONWithSWR(key): GET key; null if missing; else EXISTS key:fresh and
\* { data, stale: fresh === 0 }
getJSONWithSWR(k) ==
    IF ~store[k].present THEN NotFound
    ELSE [found |-> TRUE, data |-> store[k].val, stale |-> ~marker[k].present]

GetJSONWithSWR(k) ==
    /\ got' = getJSONWithSWR(k)
    /\ invalidated' = FALSE
    /\ UNCHANGED <<store, marker, index, obs, outsideCache>>

\* invalidateByTags([t]): members = SMEMBERS index; DEL members and their
\* ':fresh' keys; DEL index.
InvalidateByTags ==
    LET members == index.members IN
    /\ store' = [k \in CKeys |-> IF k \in members THEN NoKey ELSE store[k]]
    /\ marker' = [k \in CKeys |-> IF k \in members THEN NoKey ELSE marker[k]]
    /\ index' = NoIndex
    /\ obs' = IF obs.active /\ obs.key \in members THEN NoObs ELSE obs
    /\ invalidated' = TRUE
    /\ UNCHANGED <<got, outsideCache>>

\* TickSeconds seconds pass: Redis drops the keys whose TTL has run out.  The
\* age of the observed entry is counted up to the end of its stale window.
Tick ==
    /\ \/ \E k \in CKeys : (store[k].present /\ store[k].hasTtl)
                             \/ (marker[k].present /\ marker[k].hasTtl)
       \/ index.members # {} /\ index.hasTtl
       \/ obs.active /\ obs.age < obs.f + obs.s
    /\ store' = [k \in CKeys |-> Aged(store[k], TickSeconds)]
    /\ marker' = [k \in CKeys |-> Aged(marker[k], TickSeconds)]
    /\ index' = AgedIndex(index, TickSeconds)
    /\ obs' = IF obs.active
              THEN [obs EXCEPT !.age = Min(obs.age + TickSeconds, obs.f + obs.s)]
              ELSE obs
    /\ invalidated' = FALSE
    /\ UNCHANGED <<got, outsideCache>>

CacheNext ==
    \/ \E k \in CKeys, v \in Vals, ttl \in TtlChoices, tg \in BOOLEAN :
          SetJSON(k, v, ttl, tg)
    \/ \E k \in CKeys, v \in Vals, f \in TtlChoices, sw \in TtlChoices, tg \in BOOLEAN :
          SetJSONWithSWR(k, v, f, sw, tg)
    \/ \E k \in CKeys : GetJSONWithSWR(k)
    \/ InvalidateByTags
    \/ Tick

\* ------------------------------------------------------------------------
\* cache.service.ts / search.routes.ts: building the cache key
\* ------------------------------------------------------------------------
\* Coordinates are integers in units of 1e-6 degrees, radii in units of
\* 0.1 km.  Math.round rounds to the nearest integer, halves upwards.

\* roundGeo(v): Math.round(v * 1e5) / 1e5, the result in units of 1e-5 degrees
roundGeo(u) == (u + 5) \div 10

\* Math.round(radiusKm * 2) / 2, the result in units of 0.5 km
roundRadius(r) == (2 * r + 5) \div 10

\* Array.prototype.sort(): insertion of x into a sorted sequence
RECURSIVE SortedInsert(_, _)
SortedInsert(x, sq) ==
    IF sq = <<>> THEN <<x>>
    ELSE IF x <= Head(sq) THEN <<x>> \o sq
    ELSE <<Head(sq)>> \o SortedInsert(x, Tail(sq))

RECURSIVE ArraySort(_)
ArraySort(sq) == IF sq = <<>> THEN <<>> ELSE SortedInsert(Head(sq), ArraySort(Tail(sq)))

\* (variant: the array is copied but not sorted)
normalizeArrayUnsorted(arr) == arr

\* normalizeArray(arr): undefined unless an array; else [...arr].sort().
\* An optional array is [given |-> BOOLEAN, items |-> sequence].
normalizeArray(arr) ==
    IF ~arr.given THEN arr ELSE [given |-> TRUE, items |-> ArraySort(arr.items)]

\* keyParts of the handler; cache.buildKey('search', keyParts) is
\* ns:search:sha1(JSON.stringify(keyParts)): the hash is taken to be free of
\* collisions, so that the key stands for the serialized parts.
keyParts(q) ==
    [target |-> q.target, sort |-> q.sort, limit |-> q.limit, page |-> q.page,
     offset |-> Max(0, (q.page - 1) * q.limit),
     cityId |-> q.cityId,
     bbox |-> IF q.bbox.given
              THEN [given |-> TRUE, south |-> roundGeo(q.bbox.south),
                    west |-> roundGeo(q.bbox.west), north |-> roundGeo(q.bbox.north),
                    east |-> roundGeo(q.bbox.east)]
              ELSE q.bbox,
     geo |-> [lat |-> roundGeo(q.geo.lat), lon |-> roundGeo(q.geo.lon),
              radiusKm |-> roundRadius(q.geo.radiusKm)],
     filters |-> [categories |-> normalizeArray(q.categorySlugs),
                  sources |-> normalizeArray(q.sources)]]

buildKey(prefix, parts) == <<"v1", prefix, parts>>

cacheKeyOf(q) == buildKey("search", keyParts(q))

\* The request bodies of the key specification.
SeqsUpTo(S, n) == UNION {[1..m -> S] : m \in 0..n}
OptArrays(S, n) ==
    {[given |-> FALSE, items |-> <<>>]} \cup {[given |-> TRUE, items |-> a] : a \in SeqsUpTo(S, n)}
\* sources: FOURSQUARE = 1, GOOGLE_PLACES = 2
SourceArrays ==
    {[given |-> TRUE, items |-> a] : a \in {<<>>, <<1, 2>>, <<2, 1>>, <<2, 2, 1>>}}
LatChoices == {50110001, 50110004, 50110005}
RadiusChoices == {50, 52, 53}
NoBbox == [given |-> FALSE, south |-> 0, west |-> 0, north |-> 0, east |-> 0]
BboxChoices ==
    {NoBbox} \cup {[given |-> TRUE, south |-> 50000004, west |-> w, north |-> 50200000,
                    east |-> 8900000] : w \in {-8500005, -8500004}}

\* q: the free text of the request, if any
Queries ==
    [q : {Absent, <<"jazz">>, <<"rock">>},
     target : {"both"}, sort : {"rank"}, limit : {20}, page : {1}, cityId : {40},
     bbox : BboxChoices,
     geo : [lat : LatChoices, lon : {8680000}, radiusKm : RadiusChoices],
     categorySlugs : OptArrays(1..NumSlugs, MaxArr),
     sources : SourceArrays]

KeyInit ==
    /\ query \in Queries
    /\ builtKey = Absent

KeyIdle ==
    /\ query = CHOOSE q \in Queries : TRUE
    /\ builtKey = Absent

\* const cacheKey = cache.buildKey('search', keyParts);
BuildCacheKey ==
    /\ builtKey = Absent
    /\ builtKey' = <<cacheKeyOf(query)>>
    /\ UNCHANGED <<query, outsideKey>>

KeyNext == BuildCacheKey

\* ------------------------------------------------------------------------
\* merge.service.ts: IngestionMergeService
\* ------------------------------------------------------------------------
\* A string field is Null (null or undefined), "" or a non-empty string.  An
\* optional number, a location, a date and an optional result are sequences
\* of length at most one: Absent is null/undefined.
Null == "<null>"

\* !s || s.length === 0
IsEmpty(str) == str = Null \/ str = ""

\* a string used as a condition: neither null/undefined nor ""
Truthy(str) == ~IsEmpty(str)

\* const update = {}: no key set.  A key of an update holds <<value>>.
NoPlaceUpdate ==
    [name |-> Absent, address |-> Absent, lat |-> Absent, lng |-> Absent,
     imageUrl |-> Absent, url |-> Absent, rating |-> Absent, reviewCount |-> Absent]
NoEventUpdate == [title |-> Absent, description |-> Absent, imageUrl |-> Absent]

\* Object.keys(update).length ? update : null
UpdateOrNull(update, none) == IF update = none THEN Absent ELSE <<update>>

\* (variant: an incoming non-empty string replaces the existing one)
buildPlaceUpdateOverwrites(existing, normalized, sourceType, sourceUpdatedAt) ==
    UpdateOrNull(
        [NoPlaceUpdate EXCEPT
           !.name = IF Truthy(normalized.name) THEN <<normalized.name>> ELSE Absent,
           !.address = IF Truthy(normalized.address) THEN <<normalized.address>> ELSE Absent,
           !.imageUrl = IF Truthy(normalized.imageUrl) THEN <<normalized.imageUrl>> ELSE Absent,
           !.url = IF Truthy(normalized.url) THEN <<normalized.url>> ELSE Absent],
        NoPlaceUpdate)

\* buildPlaceUpdate(existing, normalized, sourceType, sourceUpdatedAt); the
\* last two parameters are not read.  update is a fresh object, so that
\* update.lat ??= ... assigns whenever the candidate has a location.
buildPlaceUpdate(existing, normalized, sourceType, sourceUpdatedAt) ==
    UpdateOrNull(
        [NoPlaceUpdate EXCEPT
           !.name = IF IsEmpty(existing.name) /\ Truthy(normalized.name)
                    THEN <<normalized.name>> ELSE Absent,
           !.address = IF IsEmpty(existing.address) /\ Truthy(normalized.address)
                       THEN <<normalized.address>> ELSE Absent,
           !.lat = IF normalized.location # Absent
                   THEN <<normalized.location[1].lat>> ELSE Absent,
           !.lng = IF normalized.location # Absent
                   THEN <<normalized.location[1].lon>> ELSE Absent,
           !.imageUrl = IF IsEmpty(existing.imageUrl) /\ Truthy(normalized.imageUrl)
                        THEN <<normalized.imageUrl>> ELSE Absent,
           !.url = IF IsEmpty(existing.url) /\ Truthy(normalized.url)
                   THEN <<normalized.url>> ELSE Absent,
           !.rating = IF existing.rating = Absent /\ normalized.rating # Absent
                      THEN normalized.rating ELSE Absent,
           !.reviewCount = IF existing.reviewCount \in {Absent, <<0>>}
                              /\ normalized.reviewCount # Absent
                           THEN <<Max(0, normalized.reviewCount[1])>> ELSE Absent],
        NoPlaceUpdate)

\* buildEventUpdate(existing, normalized, sourceType, sourceUpdatedAt); the
\* last two parameters are not read.
buildEventUpdate(existing, normalized, sourceType, sourceUpdatedAt) ==
    UpdateOrNull(
        [NoEventUpdate EXCEPT
           !.title = IF IsEmpty(existing.title) /\ Truthy(normalized.title)
                     THEN <<normalized.title>> ELSE Absent,
           !.description = IF IsEmpty(existing.description) /\ Truthy(normalized.description)
                           THEN <<normalized.description>> ELSE Absent,
           !.imageUrl = IF IsEmpty(existing.imageUrl) /\ Truthy(normalized.imageUrl)
                        THEN <<normalized.imageUrl>> ELSE Absent],
        NoEventUpdate)

\* The arguments of the merge specification.
ExistingPlaces ==
    [name : {Null, "", "old"}, address : {Null, "old"}, imageUrl : {Null, "old"},
     url : {"", "old"}, rating : {Absent, <<4>>}, reviewCount : {<<0>>, <<50>>}]
IncomingPlaces ==
    [name : {Null, "", "new"}, address : {"", "new"}, imageUrl : {Null, "new"},
     url : {Null, "new"}, location : {Absent, <<[lat |-> 50, lon |-> 8]>>},
     rating : {Absent, <<5>>}, reviewCount : {Absent, <<23>>}]
ExistingEvents ==
    [title : {Null, "", "old"}, description : {Null, "", "old"}, imageUrl : {Null, "old"}]
IncomingEvents ==
    [title : {Null, "", "new"}, description : {Null, "", "new"}, imageUrl : {Null, "new"}]
\* Dates: sourceUpdatedAt of the call, and of the data on record for the entity.
MergeDates == {Absent, <<1>>, <<3>>}
RecordedDates == {<<2>>}

MergeInputs ==
    [kind : {"place"}, existing : ExistingPlaces, normalized : IncomingPlaces,
     sourceType : {"GOOGLE_PLACES"}, recordedAt : RecordedDates, sourceUpdatedAt : MergeDates]
    \cup
    [kind : {"event"}, existing : ExistingEvents, normalized : IncomingEvents,
     sourceType : {"TICKETMASTER"}, recordedAt : RecordedDates, sourceUpdatedAt : MergeDates]

NoMergeOut == [done |-> FALSE, update |-> Absent]

MergeInit ==
    /\ mergeIn \in MergeInputs
    /\ mergeOut = NoMergeOut

MergeIdle ==
    /\ mergeIn = [kind |-> "event",
                  existing |-> CHOOSE e \in ExistingEvents : TRUE,
                  normalized |-> CHOOSE n \in IncomingEvents : TRUE,
                  sourceType |-> "TICKETMASTER",
                  recordedAt |-> CHOOSE t \in RecordedDates : TRUE,
                  sourceUpdatedAt |-> CHOOSE t \in MergeDates : TRUE]
    /\ mergeOut = NoMergeOut

BuildPlaceUpdate ==
    /\ ~mergeOut.done /\ mergeIn.kind = "place"
    /\ mergeOut' = [done |-> TRUE,
                    update |-> buildPlaceUpdate(mergeIn.existing, mergeIn.normalized,
                                                mergeIn.sourceType, mergeIn.sourceUpdatedAt)]
    /\ UNCHANGED <<mergeIn, outsideMerge>>

BuildEventUpdate ==
    /\ ~mergeOut.done /\ mergeIn.kind = "event"
    /\ mergeOut' = [done |-> TRUE,
                    update |-> buildEventUpdate(mergeIn.existing, mergeIn.normalized,
                                                mergeIn.sourceType, mergeIn.sourceUpdatedAt)]
    /\ UNCHANGED <<mergeIn, outsideMerge>>

MergeNext == BuildPlaceUpdate \/ BuildEventUpdate

\* ------------------------------------------------------------------------
\* dedup.service.ts: the candidates and IngestionDedupService
\* ------------------------------------------------------------------------
\* A call of the ingestion specification is one of MaxCalls calls, and a
\* batch holds up to MaxBatch candidates.
MaxCalls == 2
MaxBatch == 2

\* Sequence helpers: Array.from(new Set(a)) keeps first occurrences in
\* order; Flatten concatenates.
RECURSIVE Uniq(_, _)
Uniq(sq, acc) ==
    IF sq = <<>> THEN acc
    ELSE Uniq(Tail(sq), IF \E i \in DOMAIN acc : acc[i] = Head(sq)
                        THEN acc ELSE Append(acc, Head(sq)))

RECURSIVE Flatten(_)
Flatten(sq) == IF sq = <<>> THEN <<>> ELSE Head(sq) \o Flatten(Tail(sq))

\* The smallest member of a non-empty set of numbers.
First(S) == CHOOSE i \in S : \A j \in S : i <= j

\* NormalizedPlaceLike without its source.  A raw provider category is the
\* sequence of its comma-separated parts: <<"Cafe", "Coffee">> is the
\* string "Cafe, Coffee".
PlaceBodies ==
    <<[name |-> "Cafe", location |-> <<[lat |-> 50, lon |-> 8]>>, address |-> "Main St",
      url |-> Null, imageUrl |-> Null, rating |-> <<4>>, reviewCount |-> <<10>>,
      cityId |-> "40", categories |-> <<"place.food_restaurant">>,
      providerCategoriesRaw |-> << <<"cafe">> >>, sourceUpdatedAt |-> Absent],
     [name |-> "Cafe", location |-> <<[lat |-> 50, lon |-> 8]>>, address |-> Null,
      url |-> Null, imageUrl |-> Null, rating |-> <<3>>, reviewCount |-> <<5>>,
      cityId |-> "40", categories |-> <<"place.food_cafe_coffee">>,
      providerCategoriesRaw |-> << <<"Cafe", "Coffee">> >>, sourceUpdatedAt |-> Absent],
     [name |-> "Kiosk", location |-> Absent, address |-> Null,
      url |-> Null, imageUrl |-> Null, rating |-> Absent, reviewCount |-> Absent,
      cityId |-> "40", categories |-> <<>>,
      providerCategoriesRaw |-> <<>>, sourceUpdatedAt |-> Absent],
     [name |-> Null, location |-> <<[lat |-> 51, lon |-> 9]>>, address |-> Null,
      url |-> Null, imageUrl |-> Null, rating |-> Absent, reviewCount |-> Absent,
      cityId |-> Null, categories |-> <<>>,
      providerCategoriesRaw |-> <<>>, sourceUpdatedAt |-> Absent]>>

\* NormalizedEventLike without its source.  Times are minutes on one time line.
EventBodies ==
    <<[title |-> "Show", description |-> "Great", imageUrl |-> Null, location |-> Absent,
      cityId |-> "40", time |-> <<[start |-> 1200, end |-> Absent]>>,
      categories |-> <<"event.concert_show">>, providerCategoriesRaw |-> << <<"music">> >>,
      priceFrom |-> <<10>>, sourceUpdatedAt |-> Absent],
     [title |-> "SHOW", description |-> Null, imageUrl |-> Null,
      location |-> <<[lat |-> 50, lon |-> 8]>>,
      cityId |-> "40", time |-> <<[start |-> 1200, end |-> <<1380>>]>>,
      categories |-> <<>>, providerCategoriesRaw |-> <<>>,
      priceFrom |-> Absent, sourceUpdatedAt |-> Absent],
     [title |-> "Fair", description |-> Null, imageUrl |-> Null, location |-> Absent,
      cityId |-> "40", time |-> <<[start |-> 1200, end |-> <<1100>>]>>,
      categories |-> <<"event.theatre_performing_arts">>, providerCategoriesRaw |-> << <<"Food", "Drink">> >>,
      priceFrom |-> Absent, sourceUpdatedAt |-> Absent],
     [title |-> "Gig", description |-> Null, imageUrl |-> Null, location |-> Absent,
      cityId |-> Null, time |-> <<[start |-> 1500, end |-> Absent]>>,
      categories |-> <<>>, providerCategoriesRaw |-> <<>>,
      priceFrom |-> Absent, sourceUpdatedAt |-> Absent]>>

PlaceKeys == <<[source |-> "GOOGLE_PLACES", externalId |-> "g1"],
               [source |-> "FOURSQUARE", externalId |-> "f1"]>>
EventKeys == <<[source |-> "TICKETMASTER", externalId |-> "t1"],
               [source |-> "PREDICTHQ", externalId |-> "p1"]>>

WithSource(body, key) ==
    [f \in DOMAIN body \cup {"source"} |-> IF f = "source" THEN key ELSE body[f]]

\* The candidates of the ingestion specification: which body comes under
\* which source key.
PlaceCandidates ==
    {WithSource(PlaceBodies[1], PlaceKeys[1]), WithSource(PlaceBodies[2], PlaceKeys[2]),
     WithSource(PlaceBodies[3], PlaceKeys[1]), WithSource(PlaceBodies[4], PlaceKeys[2])}
EventCandidates ==
    {WithSource(EventBodies[1], EventKeys[1]), WithSource(EventBodies[2], EventKeys[2]),
     WithSource(EventBodies[3], EventKeys[1]), WithSource(EventBodies[4], EventKeys[2])}

\* title: { equals: ..., mode: 'insensitive' }
Lower(str) == IF str \in {"Show", "SHOW"} THEN "show" ELSE str

EmptyDb ==
    [place |-> <<>>, placeSource |-> <<>>, event |-> <<>>, eventSource |-> <<>>,
     eventOccurrence |-> <<>>]

\* findUnique({ where: { source_externalId } }): the row's index, 0 for null
SourceRow(rows, key) ==
    LET I == {i \in DOMAIN rows : rows[i].source = key.source
                                  /\ rows[i].externalId = key.externalId}
    IN IF I = {} THEN 0 ELSE First(I)

\* prisma.place.create({ data: placeData })
NewPlace(n) ==
    [name |-> IF Truthy(n.name) THEN n.name ELSE "",
     lat |-> n.location[1].lat, lng |-> n.location[1].lon,
     address |-> n.address, url |-> n.url, imageUrl |-> n.imageUrl,
     rating |-> n.rating,
     reviewCount |-> IF n.reviewCount # Absent THEN <<Max(0, n.reviewCount[1])>> ELSE <<0>>,
     cityId |-> n.cityId, provider |-> n.source.source,
     providerCategories |-> <<>>, scores |-> Absent, mainCategoryId |-> Absent,
     links |-> {}, primary |-> {}]

\* prisma.event.create({ data: eventData })
NewEvent(n) ==
    [title |-> IF Truthy(n.title) THEN n.title ELSE "",
     description |-> n.description, imageUrl |-> n.imageUrl,
     cityId |-> n.cityId, provider |-> n.source.source,
     providerCategories |-> <<>>, scores |-> Absent, mainCategoryId |-> Absent,
     links |-> {}, primary |-> {}, priceFrom |-> Absent]

\* The outcome of a match-or-create call: it threw, or a canonical id and the
\* reason of the match; with the database it leaves.
Matched(id, reason, d) == [threw |-> FALSE, id |-> id, reason |-> reason, db |-> d]
MatchThrew(d) == [threw |-> TRUE, id |-> 0, reason |-> "none", db |-> d]

\* findNearestPlaceByGeoAndName: the places inside the radius (and of the
\* candidate's city, if it names one); two locations are either the same
\* point or further apart than the radius.  A differing name only penalizes
\* the distance: it does not exclude the place.
PlacesNear(d, n) ==
    IF n.location = Absent THEN {}
    ELSE {p \in DOMAIN d.place :
            /\ d.place[p].lat = n.location[1].lat
            /\ d.place[p].lng = n.location[1].lon
            /\ Truthy(n.cityId) => d.place[p].cityId = n.cityId}

\* (variant: the heuristic match is tried before the source row)
matchOrCreatePlaceHeuristicFirst(d, normalized, createFails) ==
    LET ps == SourceRow(d.placeSource, normalized.source)
        near == PlacesNear(d, normalized)
    IN IF near # {} THEN Matched(First(near), "GEO_NAME", d)
       ELSE IF ps # 0 THEN Matched(d.placeSource[ps].canonicalId, "SOURCE", d)
       ELSE IF normalized.location = Absent THEN MatchThrew(d)
       ELSE IF ~Truthy(normalized.cityId) THEN MatchThrew(d)
       ELSE IF createFails THEN MatchThrew(d)
       ELSE Matched(Len(d.place) + 1, "GEO_NAME",
                    [d EXCEPT !.place = Append(@, NewPlace(normalized))])

\* matchOrCreatePlace(normalized); createFails: prisma.place.create rejects
matchOrCreatePlace(d, normalized, createFails) ==
    LET ps == SourceRow(d.placeSource, normalized.source)
        near == PlacesNear(d, normalized)
    IN IF ps # 0 THEN Matched(d.placeSource[ps].canonicalId, "SOURCE", d)
       ELSE IF near # {} THEN Matched(First(near), "GEO_NAME", d)
       ELSE IF normalized.location = Absent THEN MatchThrew(d)
       ELSE IF ~Truthy(normalized.cityId) THEN MatchThrew(d)
       ELSE IF createFails THEN MatchThrew(d)
       ELSE Matched(Len(d.place) + 1, "GEO_NAME",
                    [d EXCEPT !.place = Append(@, NewPlace(normalized))])

\* prisma.event.findFirst({ where: { cityId, title: insensitive equals } })
EventsSame(d, n) ==
    IF Truthy(n.title) /\ Truthy(n.cityId)
    THEN {e \in DOMAIN d.event : /\ d.event[e].cityId = n.cityId
                                 /\ Lower(d.event[e].title) = Lower(n.title)}
    ELSE {}

\* (variant: the cityId check is missing and the event is created)
matchOrCreateEventNoCityCheck(d, normalized, createFails) ==
    LET es == SourceRow(d.eventSource, normalized.source)
    IN IF es # 0 THEN Matched(d.eventSource[es].canonicalId, "SOURCE", d)
       ELSE Matched(Len(d.event) + 1, "GEO_NAME",
                    [d EXCEPT !.event = Append(@, NewEvent(normalized))])

\* matchOrCreateEvent(normalized); createFails: prisma.event.create rejects
matchOrCreateEvent(d, normalized, createFails) ==
    LET es == SourceRow(d.eventSource, normalized.source)
        same == EventsSame(d, normalized)
    IN IF es # 0 THEN Matched(d.eventSource[es].canonicalId, "SOURCE", d)
       ELSE IF same # {} THEN Matched(First(same), "GEO_NAME", d)
       ELSE IF ~Truthy(normalized.cityId) THEN MatchThrew(d)
       ELSE IF createFails THEN MatchThrew(d)
       ELSE Matched(Len(d.event) + 1, "GEO_NAME",
                    [d EXCEPT !.event = Append(@, NewEvent(normalized))])

\* ------------------------------------------------------------------------
\* persist.service.ts: IngestionPersistService
\* ------------------------------------------------------------------------
\* The store write of an item that rejects, if any: the create of the dedup
\* service, the update of the canonical record, a write of the category
\* helper, the occurrence write or the source upsert.
FailPoints == {"none", "create", "update", "categories", "occurrence", "source"}

\* Math.random() of the duration helper: the minutes it may come up with.
RandomMinutes == {90, 180}

\* const stats = { total: items.length, created: 0, ... warnings: [] }
NewStats(total) ==
    [total |-> total, created |-> 0, updated |-> 0, unchanged |-> 0, errors |-> 0,
     warnings |-> <<>>]

\* The state of the loop: the database and the statistics so far, and
\* whether the item just processed threw into the catch block.
Loop(d, st) == [db |-> d, stats |-> st, threw |-> FALSE]

\* (variant: the catch block pushes the warning and does not count the error)
CaughtUncounted(d, st, kind) ==
    [db |-> d, stats |-> [st EXCEPT !.warnings = Append(@, kind)], threw |-> TRUE]

\* catch (e) { stats.errors++; stats.warnings.push(`... error: ...`) }
Caught(d, st, kind) ==
    [db |-> d, stats |-> [st EXCEPT !.errors = @ + 1, !.warnings = Append(@, kind)],
     threw |-> TRUE]

\* scoring.scoreByCanonicalId(id): a function of the id alone
scoreByCanonicalId(id) == <<id>>

\* The comma-separated audit field: the union of the parts on record and
\* the candidate's raw categories, joined by ", "; Absent if it is not to
\* be written.  A string is the sequence of its comma-separated parts.
providerCategoriesUpdate(existingField, raw) ==
    LET normCats == Uniq(SelectSeq(raw, LAMBDA c : c # <<>>), <<>>)
        existingProvCats == [i \in DOMAIN existingField |-> <<existingField[i]>>]
        unionStr == Flatten(Uniq(existingProvCats \o normCats, <<>>))
    IN IF normCats # <<>> /\ existingField # unionStr THEN <<unionStr>> ELSE Absent

\* prisma.placeCategory / eventCategory: the keys of the category tables
CategoryTable ==
    <<"event.concert_show", "event.theatre_performing_arts",
      "place.food_cafe_coffee", "place.food_restaurant">>

\* (variant: the primary category is assigned whether or not there is one)
upsertCategoriesAlwaysPrimary(e, slugs, hasPrimaryAlready, fails) ==
    LET uniq == Uniq(slugs, <<>>)
        cats == SelectSeq(CategoryTable, LAMBDA k : \E i \in DOMAIN uniq : uniq[i] = k)
    IN IF cats = <<>> THEN [threw |-> FALSE, changed |-> FALSE, rec |-> e]
       ELSE IF fails THEN [threw |-> TRUE, changed |-> FALSE, rec |-> e]
       ELSE [threw |-> FALSE, changed |-> TRUE,
             rec |-> [e EXCEPT !.links = @ \cup {cats[i] : i \in DOMAIN cats},
                               !.primary = @ \cup {cats[1]},
                               !.mainCategoryId = <<cats[1]>>]]

\* upsertPlaceCategories / upsertEventCategories(id, slugs, hasPrimaryAlready)
\* on the record e: the links to create, then the primary category if none.
\* fails: the first write rejects.
upsertCategories(e, slugs, hasPrimaryAlready, fails) ==
    LET uniq == Uniq(slugs, <<>>)
        cats == SelectSeq(CategoryTable, LAMBDA k : \E i \in DOMAIN uniq : uniq[i] = k)
        missing == {cats[i] : i \in DOMAIN cats} \ e.links
        hasPrimary == hasPrimaryAlready \/ e.primary # {}
    IN IF cats = <<>> \/ (missing = {} /\ hasPrimary)
       THEN [threw |-> FALSE, changed |-> FALSE, rec |-> e]
       ELSE IF fails THEN [threw |-> TRUE, changed |-> FALSE, rec |-> e]
       ELSE [threw |-> FALSE, changed |-> TRUE,
             rec |-> IF hasPrimary
                     THEN [e EXCEPT !.links = @ \cup missing]
                     ELSE [e EXCEPT !.links = @ \cup missing \cup {cats[1]},
                                    !.primary = @ \cup {cats[1]},
                                    !.mainCategoryId = <<cats[1]>>]]

\* (variant: the row of a known key is left as it is)
UpsertSourceKeepsOld(rows, row) ==
    IF SourceRow(rows, row) = 0 THEN Append(rows, row) ELSE rows

\* prisma.placeSource.upsert / eventSource.upsert on the unique key
UpsertSource(rows, row) ==
    LET i == SourceRow(rows, row)
    IN IF i = 0 THEN Append(rows, row) ELSE [rows EXCEPT ![i] = row]

\* The statistics once the source row is written.
Classify(st, changed, hadSource) ==
    IF ~changed
    THEN IF hadSource THEN [st EXCEPT !.unchanged = @ + 1] ELSE [st EXCEPT !.created = @ + 1]
    ELSE IF ~hadSource THEN [st EXCEPT !.created = @ + 1] ELSE st

\* The value a key of an update gives a field: update[key] if set.
Merged(old, upd) == IF upd = Absent THEN old ELSE upd[1]

\* ingestPlaces, one pass of the loop, in the order of the code.  The
\* source row (lines 163-192): upsert it and classify the item.
PlaceSourced(links, d, id, combined, st, it, failAt) ==
    LET d3 == [d EXCEPT !.place[id] = links.rec]
        st3 == IF links.threw
               THEN [st EXCEPT !.warnings = Append(@, "place categories warning")]
               ELSE IF links.changed THEN [st EXCEPT !.updated = @ + 1] ELSE st
        row == [source |-> it.source.source, externalId |-> it.source.externalId,
                canonicalId |-> id, checksum |-> it,
                sourceUpdatedAt |-> it.sourceUpdatedAt]
    IN IF failAt = "source" THEN Caught(d3, st3, "place error")
       ELSE Loop([d3 EXCEPT !.placeSource = UpsertSource(@, row)],
                 Classify(st3, combined, SourceRow(d.placeSource, it.source) # 0))

\* The category links (lines 152-161).
PlaceLinked(d, id, hasMain, combined, st, it, failAt) ==
    PlaceSourced(IF it.categories # <<>>
                 THEN upsertCategories(d.place[id], it.categories, hasMain,
                                       failAt = "categories")
                 ELSE [threw |-> FALSE, changed |-> FALSE, rec |-> d.place[id]],
                 d, id, combined, st, it, failAt)

\* The combined update of the canonical place (lines 108-150).
PlaceCombined(d, id, existing, update, cats, st, provider, it, failAt) ==
    LET u == IF update = Absent THEN NoPlaceUpdate ELSE update[1]
        scores == scoreByCanonicalId(id)
        providerUpdate == existing.provider = Null
        combined == update # Absent \/ existing.scores # scores \/ providerUpdate
                    \/ cats # Absent
        updated == [existing EXCEPT
                      !.name = Merged(@, u.name), !.address = Merged(@, u.address),
                      !.lat = Merged(@, u.lat), !.lng = Merged(@, u.lng),
                      !.imageUrl = Merged(@, u.imageUrl), !.url = Merged(@, u.url),
                      !.rating = IF u.rating = Absent THEN @ ELSE u.rating,
                      !.reviewCount = IF u.reviewCount = Absent THEN @ ELSE u.reviewCount,
                      !.scores = scores,
                      !.provider = IF providerUpdate THEN provider ELSE @,
                      !.providerCategories = Merged(@, cats)]
    IN IF combined
       THEN IF failAt = "update" THEN Caught(d, st, "place error")
            ELSE PlaceLinked([d EXCEPT !.place[id] = updated], id,
                             existing.mainCategoryId # Absent, TRUE,
                             [st EXCEPT !.updated = @ + 1], it, failAt)
       ELSE PlaceLinked(d, id, existing.mainCategoryId # Absent, FALSE, st, it, failAt)

\* The canonical record of the match (lines 91-106).
PlaceMatched(match, d, st, provider, it, failAt) ==
    IF match.threw THEN Caught(d, st, "place error")
    ELSE IF match.id \notin DOMAIN match.db.place
    THEN Caught(match.db, st, "Place not found after match")
    ELSE PlaceCombined(
             match.db, match.id, match.db.place[match.id],
             buildPlaceUpdate(
                 [name |-> match.db.place[match.id].name,
                  address |-> match.db.place[match.id].address,
                  imageUrl |-> match.db.place[match.id].imageUrl,
                  url |-> match.db.place[match.id].url,
                  rating |-> Absent, reviewCount |-> Absent],
                 it, provider, it.sourceUpdatedAt),
             providerCategoriesUpdate(match.db.place[match.id].providerCategories,
                                      it.providerCategoriesRaw),
             st, provider, it, failAt)

\* One pass of the loop of ingestPlaces for the item it.
PlaceItem(d, st, provider, it, failAt) ==
    PlaceMatched(matchOrCreatePlace(d, it, failAt = "create"), d, st, provider, it, failAt)

\* resolveExpectedDurationForEvent(slug): the expected duration of the
\* category, a random one (roll) for a missing, unknown or "other" slug.
ExpectedDuration == 120
TheatreDuration == 150
resolveExpectedDurationForEvent(categories, roll) ==
    IF categories = <<>> THEN roll
    ELSE IF categories[1] = "event.concert_show" THEN ExpectedDuration
    ELSE IF categories[1] = "event.theatre_performing_arts" THEN TheatreDuration
    ELSE roll

\* findNearestPlaceId(lat, lon): the nearest place inside the link radius
findNearestPlaceId(d, location) ==
    LET near == {p \in DOMAIN d.place : /\ d.place[p].lat = location.lat
                                        /\ d.place[p].lng = location.lon}
    IN IF near = {} THEN Absent ELSE <<First(near)>>

\* prisma.eventOccurrence.findFirst({ where: { eventId, startTime } })
FindOccurrence(d, eventId, start) ==
    LET I == {i \in DOMAIN d.eventOccurrence :
                /\ d.eventOccurrence[i].eventId = eventId
                /\ d.eventOccurrence[i].startTime = start}
    IN IF I = {} THEN 0 ELSE First(I)

\* (variant: the occurrence is created without the look-up by start time)
upsertOccurrenceAlwaysCreates(d, eventId, it, roll) ==
    [d EXCEPT !.eventOccurrence =
        Append(@, [eventId |-> eventId, startTime |-> it.time[1].start,
                   endTime |-> it.time[1].end, lat |-> Absent, lng |-> Absent,
                   placeId |-> Absent])]

\* (variant: an end of the provider is written only if the occurrence has none)
upsertOccurrenceKeepsEnd(d, eventId, it, roll) ==
    LET start == it.time[1].start
        endFromProvider == it.time[1].end # Absent /\ it.time[1].end[1] > start
        effectiveEnd == IF endFromProvider THEN it.time[1].end[1]
                        ELSE start + resolveExpectedDurationForEvent(it.categories, roll)
        existingOcc == FindOccurrence(d, eventId, start)
    IN IF existingOcc # 0
       THEN [d EXCEPT !.eventOccurrence[existingOcc].endTime =
                         IF @ = Absent THEN <<effectiveEnd>> ELSE @]
       ELSE [d EXCEPT !.eventOccurrence =
               Append(@, [eventId |-> eventId, startTime |-> start,
                          endTime |-> <<effectiveEnd>>, lat |-> Absent, lng |-> Absent,
                          placeId |-> Absent])]

\* (variant: the effective end is written whether or not the occurrence has one)
upsertOccurrenceOverwritesEnd(d, eventId, it, roll) ==
    LET start == it.time[1].start
        endFromProvider == it.time[1].end # Absent /\ it.time[1].end[1] > start
        effectiveEnd == IF endFromProvider THEN it.time[1].end[1]
                        ELSE start + resolveExpectedDurationForEvent(it.categories, roll)
        existingOcc == FindOccurrence(d, eventId, start)
    IN IF existingOcc # 0
       THEN [d EXCEPT !.eventOccurrence[existingOcc].endTime = <<effectiveEnd>>]
       ELSE [d EXCEPT !.eventOccurrence =
               Append(@, [eventId |-> eventId, startTime |-> start,
                          endTime |-> <<effectiveEnd>>, lat |-> Absent, lng |-> Absent,
                          placeId |-> Absent])]

\* The occurrence step of ingestEvents for a candidate with a start time.
upsertOccurrence(d, eventId, it, roll) ==
    LET start == it.time[1].start
        endFromProvider == it.time[1].end # Absent /\ it.time[1].end[1] > start
        effectiveEnd == IF endFromProvider THEN it.time[1].end[1]
                        ELSE start + resolveExpectedDurationForEvent(it.categories, roll)
        existingOcc == FindOccurrence(d, eventId, start)
        setEnd == endFromProvider \/ existingOcc = 0
                  \/ d.eventOccurrence[existingOcc].endTime = Absent
        hasLoc == it.location # Absent
        placeId == IF hasLoc THEN findNearestPlaceId(d, it.location[1]) ELSE Absent
    IN IF existingOcc # 0
       THEN [d EXCEPT !.eventOccurrence[existingOcc] =
               [@ EXCEPT !.endTime = IF setEnd THEN <<effectiveEnd>> ELSE @,
                         !.lat = IF hasLoc THEN <<it.location[1].lat>> ELSE @,
                         !.lng = IF hasLoc THEN <<it.location[1].lon>> ELSE @,
                         !.placeId = IF placeId # Absent THEN placeId ELSE @]]
       ELSE [d EXCEPT !.eventOccurrence =
               Append(@, [eventId |-> eventId, startTime |-> start,
                          endTime |-> <<effectiveEnd>>,
                          lat |-> IF hasLoc THEN <<it.location[1].lat>> ELSE Absent,
                          lng |-> IF hasLoc THEN <<it.location[1].lon>> ELSE Absent,
                          placeId |-> placeId])]

\* ingestEvents, one pass of the loop, in the order of the code.  The
\* source row (lines 369-397): upsert it and classify the item.
EventSourced(d, id, combined, st, it, failAt) ==
    LET row == [source |-> it.source.source, externalId |-> it.source.externalId,
                canonicalId |-> id, checksum |-> it,
                sourceUpdatedAt |-> it.sourceUpdatedAt]
    IN IF failAt = "source" THEN Caught(d, st, "event error")
       ELSE Loop([d EXCEPT !.eventSource = UpsertSource(@, row)],
                 Classify(st, combined, SourceRow(d.eventSource, it.source) # 0))

\* The occurrence (lines 305-367).
EventOccurred(links, d, id, combined, st, it, failAt, roll) ==
    LET d3 == [d EXCEPT !.event[id] = links.rec]
        st3 == IF links.threw
               THEN [st EXCEPT !.warnings = Append(@, "event categories warning")]
               ELSE IF links.changed THEN [st EXCEPT !.updated = @ + 1] ELSE st
    IN IF it.time # Absent
       THEN IF failAt = "occurrence" THEN Caught(d3, st3, "event error")
            ELSE EventSourced(upsertOccurrence(d3, id, it, roll), id, combined, st3,
                              it, failAt)
       ELSE EventSourced(d3, id, combined, st3, it, failAt)

\* The category links (lines 293-302).
EventLinked(d, id, hasMain, combined, st, it, failAt, roll) ==
    EventOccurred(IF it.categories # <<>>
                  THEN upsertCategories(d.event[id], it.categories, hasMain,
                                        failAt = "categories")
                  ELSE [threw |-> FALSE, changed |-> FALSE, rec |-> d.event[id]],
                  d, id, combined, st, it, failAt, roll)

\* The combined update of the canonical event (lines 229-291).
EventCombined(d, id, existing, update, cats, st, provider, it, failAt, roll) ==
    LET u == IF update = Absent THEN NoEventUpdate ELSE update[1]
        scores == scoreByCanonicalId(id)
        providerUpdate == existing.provider = Null
        ext == it.priceFrom # Absent /\ existing.priceFrom # it.priceFrom
        combined == update # Absent \/ existing.scores # scores \/ providerUpdate
                    \/ cats # Absent \/ ext
        updated == [existing EXCEPT
                      !.title = Merged(@, u.title),
                      !.description = Merged(@, u.description),
                      !.imageUrl = Merged(@, u.imageUrl),
                      !.scores = scores,
                      !.provider = IF providerUpdate THEN provider ELSE @,
                      !.providerCategories = Merged(@, cats),
                      !.priceFrom = IF ext THEN it.priceFrom ELSE @]
    IN IF combined
       THEN IF failAt = "update" THEN Caught(d, st, "event error")
            ELSE EventLinked([d EXCEPT !.event[id] = updated], id,
                             existing.mainCategoryId # Absent, TRUE,
                             [st EXCEPT !.updated = @ + 1], it, failAt, roll)
       ELSE EventLinked(d, id, existing.mainCategoryId # Absent, FALSE, st, it,
                        failAt, roll)

\* The canonical record of the match (lines 213-227).
EventMatched(match, d, st, provider, it, failAt, roll) ==
    IF match.threw THEN Caught(d, st, "event error")
    ELSE IF match.id \notin DOMAIN match.db.event
    THEN Caught(match.db, st, "Event not found after match")
    ELSE EventCombined(
             match.db, match.id, match.db.event[match.id],
             buildEventUpdate(
                 [title |-> match.db.event[match.id].title,
                  description |-> match.db.event[match.id].description,
                  imageUrl |-> match.db.event[match.id].imageUrl],
                 it, provider, it.sourceUpdatedAt),
             providerCategoriesUpdate(match.db.event[match.id].providerCategories,
                                      it.providerCategoriesRaw),
             st, provider, it, failAt, roll)

\* One pass of the loop of ingestEvents for the item it.
EventItem(d, st, provider, it, failAt, roll) ==
    EventMatched(matchOrCreateEvent(d, it, failAt = "create"), d, st, provider, it,
                 failAt, roll)

\* for (const it of items) { try { ... } catch { ... } }: the item at
\* position failIdx (0: none) has its store write failAt rejected.
RECURSIVE PlaceLoop(_, _, _, _, _, _)
PlaceLoop(lp, provider, items, i, failIdx, failAt) ==
    IF i > Len(items) THEN lp
    ELSE PlaceLoop(PlaceItem(lp.db, lp.stats, provider, items[i],
                             IF i = failIdx THEN failAt ELSE "none"),
                   provider, items, i + 1, failIdx, failAt)

RECURSIVE EventLoop(_, _, _, _, _, _, _)
EventLoop(lp, provider, items, i, failIdx, failAt, roll) ==
    IF i > Len(items) THEN lp
    ELSE EventLoop(EventItem(lp.db, lp.stats, provider, items[i],
                             IF i = failIdx THEN failAt ELSE "none", roll),
                   provider, items, i + 1, failIdx, failAt, roll)

\* ingestPlaces(provider, items) / ingestEvents(provider, items)
ingestPlaces(d, provider, items, failIdx, failAt) ==
    PlaceLoop(Loop(d, NewStats(Len(items))), provider, items, 1, failIdx, failAt)
ingestEvents(d, provider, items, failIdx, failAt, roll) ==
    EventLoop(Loop(d, NewStats(Len(items))), provider, items, 1, failIdx, failAt, roll)

\* The batches a call may be given, and the provider it is called for:
\* the orchestration groups the candidates by source.
Batches(C) == UNION {[1..n -> C] : n \in 0..MaxBatch}
ProviderOf(items, default) == IF items = <<>> THEN default ELSE items[1].source.source

\* The last call: its operation and arguments, the write that was made to
\* reject, the roll of the random duration, what it returned and the
\* database it started from.
NoMatch == [threw |-> FALSE, id |-> 0, reason |-> "none"]
NoRun ==
    [op |-> "none", items |-> <<>>, failIdx |-> 0, failAt |-> "none", roll |-> 0,
     stats |-> NewStats(0), match |-> NoMatch, before |-> EmptyDb]

IngestIdle == prisma = EmptyDb /\ run = NoRun /\ prev = NoRun /\ nCalls = 0

Called(r) ==
    /\ prev' = run
    /\ run' = r
    /\ nCalls' = nCalls + 1
    /\ UNCHANGED outsideIngest

\* The failures a batch can be given: none, or one write of one item.
Failures(items) ==
    {<<0, "none">>} \cup ((DOMAIN items) \X (FailPoints \ {"none"}))

IngestPlaces ==
    /\ nCalls < MaxCalls
    /\ \E items \in Batches(PlaceCandidates) : \E f \in Failures(items) :
         LET out == ingestPlaces(prisma, ProviderOf(items, "GOOGLE_PLACES"), items,
                                 f[1], f[2])
         IN /\ prisma' = out.db
            /\ Called([NoRun EXCEPT !.op = "ingestPlaces", !.items = items,
                                    !.failIdx = f[1], !.failAt = f[2],
                                    !.stats = out.stats, !.before = prisma])

IngestEvents ==
    /\ nCalls < MaxCalls
    /\ \E items \in Batches(EventCandidates) : \E f \in Failures(items) :
       \E roll \in RandomMinutes :
         LET out == ingestEvents(prisma, ProviderOf(items, "TICKETMASTER"), items,
                                 f[1], f[2], roll)
         IN /\ prisma' = out.db
            /\ Called([NoRun EXCEPT !.op = "ingestEvents", !.items = items,
                                    !.failIdx = f[1], !.failAt = f[2], !.roll = roll,
                                    !.stats = out.stats, !.before = prisma])

MatchOrCreatePlace ==
    /\ nCalls < MaxCalls
    /\ \E n \in PlaceCandidates :
         LET out == matchOrCreatePlace(prisma, n, FALSE)
         IN /\ prisma' = out.db
            /\ Called([NoRun EXCEPT !.op = "matchOrCreatePlace", !.items = <<n>>,
                                    !.match = [threw |-> out.threw, id |-> out.id,
                                               reason |-> out.reason],
                                    !.before = prisma])

MatchOrCreateEvent ==
    /\ nCalls < MaxCalls
    /\ \E n \in EventCandidates :
         LET out == matchOrCreateEvent(prisma, n, FALSE)
         IN /\ prisma' = out.db
            /\ Called([NoRun EXCEPT !.op = "matchOrCreateEvent", !.items = <<n>>,
                                    !.match = [threw |-> out.threw, id |-> out.id,
                                               reason |-> out.reason],
                                    !.before = prisma])

IngestNext == IngestPlaces \/ IngestEvents \/ MatchOrCreatePlace \/ MatchOrCreateEvent

\* ------------------------------------------------------------------------
\* Concurrent batches (persist.service.ts, dedup service): every await of
\* the per-item pipeline of ingestEvents is a step of its own, and the
\* steps of two batches interleave freely. ingestPlaces has the same steps
\* without the occurrence.
\* ------------------------------------------------------------------------
NumWorkers == 2
Workers == 1..NumWorkers

\* The candidates of the batches: all carry the same title, city and start
\* time; they differ in their (source, externalId) key and first category.
RaceItems ==
    [key : {[source |-> "TICKETMASTER", externalId |-> "t1"],
            [source |-> "PREDICTHQ", externalId |-> "p1"]},
     category : {"event.concert_show", "event.theatre"}]

EmptyRaceDb == [event |-> <<>>, link |-> {}, occurrence |-> <<>>, source |-> <<>>]

Fresh(item) ==
    [pc |-> "findSource", item |-> item, match |-> 0,
     existing |-> [mainCategoryId |-> Absent, scored |-> FALSE],
     existingLinks |-> {}, existingOcc |-> 0, existingSource |-> 0]

RaceIdle ==
    /\ raceDb = EmptyRaceDb
    /\ workers = [w \in Workers |-> Fresh([key |-> [source |-> "TICKETMASTER",
                                                     externalId |-> "t1"],
                                           category |-> "event.concert_show"])]
    /\ overlap = FALSE

RaceInit ==
    /\ raceDb = EmptyRaceDb
    /\ workers \in {[w \in Workers |-> Fresh(items[w])] : items \in [Workers -> RaceItems]}
    /\ overlap = FALSE

UnderWay(w) == workers[w].pc \notin {"findSource", "done"}

\* The step of batch w from position pc: the worker's record becomes next.
Advance(w, pc, next) ==
    /\ workers[w].pc = pc
    /\ workers' = [workers EXCEPT ![w] = next]
    /\ overlap' = (overlap \/ \E v \in Workers \ {w} : UnderWay(v))
    /\ UNCHANGED outsideRace

\* matchOrCreateEvent: eventSource.findUnique by (source, externalId)
FindSource(w) ==
    LET me == workers[w]
        I == {i \in DOMAIN raceDb.source : raceDb.source[i].key = me.item.key}
    IN /\ Advance(w, "findSource",
                  IF I # {}
                  THEN [me EXCEPT !.match = raceDb.source[First(I)].eventId,
                                  !.pc = "findExisting"]
                  ELSE [me EXCEPT !.pc = "findSame"])
       /\ UNCHANGED raceDb

\* matchOrCreateEvent: event.findFirst by city and title, without an order:
\* any event of that city and title
FindSame(w) ==
    LET me == workers[w]
    IN /\ IF raceDb.event # <<>>
          THEN \E id \in DOMAIN raceDb.event :
                   Advance(w, "findSame", [me EXCEPT !.match = id, !.pc = "findExisting"])
          ELSE Advance(w, "findSame", [me EXCEPT !.pc = "create"])
       /\ UNCHANGED raceDb

\* matchOrCreateEvent: event.create
CreateEvent(w) ==
    LET me == workers[w]
    IN /\ Advance(w, "create",
                  [me EXCEPT !.match = Len(raceDb.event) + 1, !.pc = "findExisting"])
       /\ raceDb' = [raceDb EXCEPT !.event =
                        Append(@, [mainCategoryId |-> Absent, scored |-> FALSE])]

\* ingestEvents: event.findUnique({ where: { id: match.id } })
FindExisting(w) ==
    LET me == workers[w]
        existing == raceDb.event[me.match]
    IN /\ Advance(w, "findExisting",
                  [me EXCEPT !.existing = existing,
                             !.pc = IF existing.scored THEN "findLinks" ELSE "update"])
       /\ UNCHANGED raceDb

\* ingestEvents: event.update with the scores the event does not have yet
UpdateEvent(w) ==
    LET me == workers[w]
    IN /\ Advance(w, "update", [me EXCEPT !.pc = "findLinks"])
       /\ raceDb' = [raceDb EXCEPT !.event[me.match].scored = TRUE]

\* upsertEventCategories: eventCategory.findMany (the category table does
\* not change) and eventToCategory.findMany({ where: { eventId } })
FindLinks(w) ==
    LET me == workers[w]
        existingLinks == {l \in raceDb.link : l.eventId = me.match}
        existingSet == {l.categoryId : l \in existingLinks}
        hasPrimary == \/ me.existing.mainCategoryId # Absent
                      \/ \E l \in existingLinks : l.isPrimary
    IN /\ Advance(w, "findLinks",
                  [me EXCEPT !.existingLinks = existingLinks,
                             !.pc = IF me.item.category \notin existingSet
                                    THEN "createLink"
                                    ELSE IF hasPrimary THEN "findOccurrence"
                                    ELSE "primary"])
       /\ UNCHANGED raceDb

\* upsertEventCategories: eventToCategory.create; the primary key
\* (eventId, categoryId) rejects a second row, and ingestEvents catches
\* what the helper throws.
CreateLink(w) ==
    LET me == workers[w]
        taken == \E l \in raceDb.link : /\ l.eventId = me.match
                                        /\ l.categoryId = me.item.category
        hasPrimary == \/ me.existing.mainCategoryId # Absent
                      \/ \E l \in me.existingLinks : l.isPrimary
    IN /\ Advance(w, "createLink",
                  [me EXCEPT !.pc = IF taken \/ hasPrimary THEN "findOccurrence"
                                    ELSE "primary"])
       /\ raceDb' = IF taken THEN raceDb
                    ELSE [raceDb EXCEPT !.link = @ \cup
                             {[eventId |-> me.match, categoryId |-> me.item.category,
                               isPrimary |-> FALSE]}]

\* upsertEventCategories: the transaction of event.update({ mainCategoryId })
\* and eventToCategory.upsert({ isPrimary: true })
AssignPrimary(w) ==
    LET me == workers[w]
        mine(l) == l.eventId = me.match /\ l.categoryId = me.item.category
    IN /\ Advance(w, "primary", [me EXCEPT !.pc = "findOccurrence"])
       /\ raceDb' = [raceDb EXCEPT
                        !.event[me.match].mainCategoryId = <<me.item.category>>,
                        !.link = {l \in @ : ~mine(l)} \cup
                                 {[eventId |-> me.match,
                                   categoryId |-> me.item.category,
                                   isPrimary |-> TRUE]}]

\* ingestEvents: eventOccurrence.findFirst({ where: { eventId, startTime } })
FindFirstOccurrence(w) ==
    LET me == workers[w]
        I == {i \in DOMAIN raceDb.occurrence : raceDb.occurrence[i].eventId = me.match}
    IN /\ Advance(w, "findOccurrence",
                  [me EXCEPT !.existingOcc = IF I = {} THEN 0 ELSE First(I),
                             !.pc = "writeOccurrence"])
       /\ UNCHANGED raceDb

\* ingestEvents: eventOccurrence.update by id, or eventOccurrence.create
WriteOccurrence(w) ==
    LET me == workers[w]
    IN /\ Advance(w, "writeOccurrence", [me EXCEPT !.pc = "findSnapshot"])
       /\ raceDb' = IF me.existingOcc # 0
                    THEN [raceDb EXCEPT !.occurrence[me.existingOcc].writer = w]
                    ELSE [raceDb EXCEPT !.occurrence =
                             Append(@, [eventId |-> me.match, writer |-> w])]

\* ingestEvents: eventSource.findUnique before the upsert
FindSnapshot(w) ==
    LET me == workers[w]
        I == {i \in DOMAIN raceDb.source : raceDb.source[i].key = me.item.key}
    IN /\ Advance(w, "findSnapshot",
                  [me EXCEPT !.existingSource = IF I = {} THEN 0 ELSE First(I),
                             !.pc = "upsertSource"])
       /\ UNCHANGED raceDb

\* ingestEvents: eventSource.upsert on the unique (source, externalId)
UpsertSnapshot(w) ==
    LET me == workers[w]
        I == {i \in DOMAIN raceDb.source : raceDb.source[i].key = me.item.key}
    IN /\ Advance(w, "upsertSource", [me EXCEPT !.pc = "done"])
       /\ raceDb' = IF I # {}
                    THEN [raceDb EXCEPT !.source[First(I)].eventId = me.match]
                    ELSE [raceDb EXCEPT !.source =
                             Append(@, [key |-> me.item.key, eventId |-> me.match])]

RaceNext ==
    \E w \in Workers :
        \/ FindSource(w) \/ FindSame(w) \/ CreateEvent(w)
        \/ FindExisting(w) \/ UpdateEvent(w)
        \/ FindLinks(w) \/ CreateLink(w) \/ AssignPrimary(w)
        \/ FindFirstOccurrence(w) \/ WriteOccurrence(w)
        \/ FindSnapshot(w) \/ UpsertSnapshot(w)

\* ------------------------------------------------------------------------
\* Scoring (scoring.service.ts)
\* ------------------------------------------------------------------------
\* 0xffff. A 32-bit unsigned integer is the pair <<high, low>> of its 16-bit
\* halves, so 0xffffffff is <<HalfMax, HalfMax>>.
HalfMax == 65535

\* The halves the digests are drawn from: both ends of the range.
Halves == {0, 1, HalfMax - 1, HalfMax}

\* h.readUInt32BE(0): any 32-bit value, the digest being SHA-256's.
Slices == Halves \X Halves

\* a < b on 32-bit unsigned integers
Less(a, b) == a[1] < b[1] \/ (a[1] = b[1] /\ a[2] < b[2])

\* The seeds `${salt}:pop:${id}`, `${salt}:qual:${id}`, `${salt}:fresh:${id}`.
Seeds == {"pop", "qual", "fresh"}

\* hashToFloat: n / 0xffffffff, kept as the quotient's two terms.
hashToFloat(n) == [num |-> n, den |-> <<HalfMax, HalfMax>>]

\* score >= 0 and score < 1 for a quotient of unsigned integers
AtLeastZero(q) == ~Less(q.num, <<0, 0>>)
BelowOne(q) == Less(q.num, q.den)

ScoreIdle == scoreIn = [s \in Seeds |-> <<0, 0>>] /\ scoreOut = Absent

ScoreInit == scoreIn \in [Seeds -> Slices] /\ scoreOut = Absent

\* scoreByCanonicalId(id), the digests of the id's seeds being scoreIn
ScoreByCanonicalId ==
    /\ scoreOut = Absent
    /\ scoreOut' = <<[popularityScore |-> hashToFloat(scoreIn["pop"]),
                      qualityScore |-> hashToFloat(scoreIn["qual"]),
                      freshnessScore |-> hashToFloat(scoreIn["fresh"])]>>
    /\ UNCHANGED <<scoreIn, outsideScore>>

ScoreNext == ScoreByCanonicalId

\* ------------------------------------------------------------------------
\* City enrichment (ingestion.service.ts, runOnlineIngest)
\* ------------------------------------------------------------------------
\* The most rows the city table has.
MaxCities == 2

\* Rows of the city table, in degrees scaled to integers: one with a
\* bounding box around its center, one without a bounding box, one whose
\* inflated box overlaps the first one's, and one whose box lies on other
\* longitudes.  All centers and all points lie on one meridian, where the
\* great-circle distance grows with the difference of the latitudes.
CityPool ==
    {[id |-> "A", lat |-> 110, lng |-> 110,
      box |-> <<[minLat |-> 100, maxLat |-> 120, minLng |-> 100, maxLng |-> 120]>>],
     [id |-> "B", lat |-> 130, lng |-> 110, box |-> Absent],
     [id |-> "C", lat |-> 140, lng |-> 110,
      box |-> <<[minLat |-> 120, maxLat |-> 160, minLng |-> 100, maxLng |-> 120]>>],
     [id |-> "D", lat |-> 90, lng |-> 110,
      box |-> <<[minLat |-> 80, maxLat |-> 100, minLng |-> 200, maxLng |-> 220]>>]}

\* The candidate's location: none, one without longitude, or a point.
CityLocations ==
    {Absent, <<[lat |-> <<99>>, lon |-> Absent]>>}
    \cup {<<[lat |-> <<y>>, lon |-> <<110>>]>> : y \in {98, 99, 121, 122, 128}}

CityInputs ==
    [item : [cityId : {Null, "", "Z"}, location : CityLocations],
     query : [cityId : {Null, "Q"}],
     cities : UNION {[1 .. n -> CityPool] : n \in 0 .. MaxCities}]

\* The haversine distance of two points of one meridian, up to a factor.
MeridianDistance(a, b) == IF a >= b THEN a - b ELSE b - a

\* The point lies in the row's bounding box inflated by 5% of its span on
\* each side (lines 193-212); coordinates are compared times 100.
InInflatedBox(c, lat, lon) ==
    /\ c.box # Absent
    /\ LET b == c.box[1]
           padLat == 5 * Max(0, b.maxLat - b.minLat)
           padLng == 5 * Max(0, b.maxLng - b.minLng)
       IN  /\ 100 * lat >= 100 * b.minLat - padLat
           /\ 100 * lat <= 100 * b.maxLat + padLat
           /\ 100 * lon >= 100 * b.minLng - padLng
           /\ 100 * lon <= 100 * b.maxLng + padLng

\* The second pass (lines 215-229): the first row whose center is nearest.
RECURSIVE nearestCenter(_, _, _, _)
nearestCenter(candidates, i, lat, best) ==
    IF i > Len(candidates) THEN best
    ELSE LET d == MeridianDistance(candidates[i].lat, lat)
         IN  nearestCenter(candidates, i + 1, lat,
                 IF best = Absent \/ d < best[1].d
                 THEN <<[id |-> candidates[i].id, d |-> d]>> ELSE best)

\* (variant: the bounding boxes are not looked at)
resolveCityIdByCenter(candidates, lat, lon) ==
    LET best == nearestCenter(candidates, 1, lat, Absent)
    IN  IF best = Absent THEN Null ELSE best[1].id

\* resolveCityIdByPoint(lat, lon), given the rows of prisma.city.findMany
resolveCityIdByPoint(candidates, lat, lon) ==
    LET boxed == {i \in DOMAIN candidates : InInflatedBox(candidates[i], lat, lon)}
        best == nearestCenter(candidates, 1, lat, Absent)
    IN  IF boxed # {} THEN candidates[First(boxed)].id
        ELSE IF best = Absent THEN Null ELSE best[1].id

\* One round of the enrichment loops (lines 234-253 and 256-274)
enrichCity(it, q, cities) ==
    IF Truthy(it.cityId) THEN it
    ELSE LET located == /\ it.location # Absent
                        /\ it.location[1].lat # Absent /\ it.location[1].lon # Absent
             cid == IF located
                    THEN resolveCityIdByPoint(cities, it.location[1].lat[1],
                                              it.location[1].lon[1])
                    ELSE Null
         IN  IF Truthy(cid) THEN [it EXCEPT !.cityId = cid]
             ELSE IF Truthy(q.cityId) THEN [it EXCEPT !.cityId = q.cityId]
             ELSE it

CityIdle ==
    /\ cityIn = [item |-> [cityId |-> Null, location |-> Absent],
                 query |-> [cityId |-> Null], cities |-> <<>>]
    /\ cityOut = Absent

CityInit == cityIn \in CityInputs /\ cityOut = Absent

EnrichCity ==
    /\ cityOut = Absent
    /\ cityOut' = <<enrichCity(cityIn.item, cityIn.query, cityIn.cities)>>
    /\ UNCHANGED <<cityIn, outsideCity>>

CityNext == EnrichCity

\* ------------------------------------------------------------------------
\* Orchestration (ingestion.service.ts, runOnlineIngest)
\* ------------------------------------------------------------------------
\* The caps of config/providers.ts, PROVIDER_LIMITS' non-zero entries (100 in
\* the source) and GLOBAL_INGEST_LIMIT (500 in the source), scaled down so
\* that the adapters of a run can exceed them.
ProviderLimit == 2
GlobalIngestLimit == 3

\* The most items one adapter's search returns.
MaxReturned == 3

PROVIDER_LIMITS ==
    [TICKETMASTER |-> ProviderLimit, PREDICTHQ |-> ProviderLimit, GEOAPIFY |-> ProviderLimit,
     GOOGLE_PLACES |-> ProviderLimit, FOURSQUARE |-> ProviderLimit, PARTNER |-> 0,
     MANUAL |-> 0]

\* (variant: arr itself)
uncapped(arr, n) == arr

cap(arr, n) == IF Len(arr) <= n THEN arr ELSE SubSeq(arr, 1, n)

\* deps.placeProviders and deps.eventProviders: two place adapters, then one
\* event adapter.
Adapters == 1 .. 3
AdapterKind == <<"place", "place", "event">>
AdapterName == <<"google", "foursquare", "ticketmaster">>
AdapterSources ==
    <<{"GOOGLE_PLACES"}, {"FOURSQUARE", "PARTNER"}, {"TICKETMASTER", "EVENTBRITE"}>>

\* How an adapter's search goes once it is called: it throws an error with
\* or without a message, or it returns count items with or without a warning
\* (which may be the empty string).
Outcomes ==
    [threw : {TRUE}, message : {"", "timeout"}, count : {0}, warning : {Absent}]
    \cup [threw : {FALSE}, message : {""}, count : 0 .. MaxReturned,
          warning : {Absent, <<"">>, <<"no key">>}]

AdapterRecords(a) ==
    [kind : {AdapterKind[a]}, name : {AdapterName[a]}, source : AdapterSources[a],
     index : {a}, outcome : Outcomes]

FanInputs ==
    [query : [cityId : {Null, "c1"}],
     adapters : {f \in [Adapters -> UNION {AdapterRecords(a) : a \in Adapters}] :
                   \A a \in Adapters : f[a].index = a}]

\* The items p.searchPlaces / p.searchEvents resolves to: normalized
\* candidates of the adapter's source, without city and without coordinates.
searchItems(p) ==
    [i \in 1 .. p.outcome.count |->
        [source |-> p.source, externalId |-> <<p.index, i>>, cityId |-> Null,
         location |-> Absent]]

\* const limit = PROVIDER_LIMITS[p.source] ?? 0
limitOf(p) == IF p.source \in DOMAIN PROVIDER_LIMITS THEN PROVIDER_LIMITS[p.source] ELSE 0

\* A callback whose promise rejects with the adapter's error.
Rethrown(p) ==
    [items |-> <<>>, pushed |-> <<>>, rejected |-> TRUE, asked |-> <<limitOf(p)>>]

\* catch (e) { warnings.push(`${p.name}: ${e?.message || 'error'}`);
\*             return { items: [] } }
Recovered(p) ==
    [items |-> <<>>,
     pushed |-> << <<p.name, IF p.outcome.message = "" THEN "error" ELSE p.outcome.message>> >>,
     rejected |-> FALSE, asked |-> <<limitOf(p)>>]

\* One callback of placeProviders.map / eventProviders.map (lines 142-174):
\* the items its promise resolves to, unless it rejects, what it pushes
\* onto warnings, and the size it asked the adapter for (Absent if it did
\* not call the adapter).
providerResult(p) ==
    LET limit == limitOf(p)
    IN  IF limit <= 0
        THEN [items |-> <<>>, pushed |-> <<>>, rejected |-> FALSE, asked |-> Absent]
        ELSE IF p.outcome.threw THEN Recovered(p)
        ELSE [items |-> cap(searchItems(p), limit),
              pushed |-> IF p.outcome.warning # Absent /\ p.outcome.warning[1] # ""
                         THEN << <<p.name, p.outcome.warning[1]>> >>
                         ELSE <<>>,
              rejected |-> FALSE, asked |-> <<limit>>]

\* (variant: the results in the opposite order)
RECURSIVE flatMapBackwards(_)
flatMapBackwards(results) ==
    IF results = <<>> THEN <<>> ELSE flatMapBackwards(Tail(results)) \o Head(results)

\* results.flatMap((r) => r.items)
RECURSIVE flatMap(_)
flatMap(results) ==
    IF results = <<>> THEN <<>> ELSE Head(results) \o flatMap(Tail(results))

\* The settled results of the adapters of one kind, in the adapters' order.
ResultsOf(kind) ==
    LET ofKind(a) == AdapterKind[a] = kind
        order == SelectSeq([a \in Adapters |-> a], ofKind)
    IN  [i \in DOMAIN order |-> settled[order[i]][1].items]

\* Lines 232-274, the city table being empty in the orchestration
\* specification.
enrich(items, q) == [i \in DOMAIN items |-> enrichCity(items[i], q, <<>>)]

\* Lines 290-296 and 310-316: the candidates by source, the sources in
\* order of first appearance.
RECURSIVE groupBySource(_, _)
groupBySource(items, groups) ==
    IF items = <<>> THEN groups
    ELSE LET it == Head(items)
             at == {g \in DOMAIN groups : groups[g].source = it.source}
         IN  groupBySource(Tail(items),
                 IF at = {}
                 THEN Append(groups, [source |-> it.source, items |-> <<it>>])
                 ELSE [groups EXCEPT ![CHOOSE g \in at : TRUE].items = Append(@, it)])

\* The calls persist.ingestPlaces(src, arr) or persist.ingestEvents(src, arr)
\* made for the candidates of one kind.
PersistCalls(kind) ==
    LET all == cap(flatMap(ResultsOf(kind)), GlobalIngestLimit)
        groups == groupBySource(enrich(all, fanIn.query), <<>>)
    IN  [g \in DOMAIN groups |->
            [kind |-> kind, source |-> groups[g].source, items |-> groups[g].items]]

FanIdle ==
    /\ fanIn = [query |-> [cityId |-> Null],
                adapters |-> [a \in Adapters |->
                    [kind |-> AdapterKind[a], name |-> AdapterName[a],
                     source |-> "TICKETMASTER", index |-> a,
                     outcome |-> [threw |-> FALSE, message |-> "", count |-> 0,
                                  warning |-> Absent]]]]
    /\ settled = [a \in Adapters |-> Absent]
    /\ warnings = <<>>
    /\ persisted = Absent

FanInit ==
    /\ fanIn \in FanInputs
    /\ settled = [a \in Adapters |-> Absent]
    /\ warnings = <<>>
    /\ persisted = Absent

\* The promise of adapter a settles.
Settle(a) ==
    /\ settled[a] = Absent
    /\ LET r == providerResult(fanIn.adapters[a])
       IN  /\ settled' = [settled EXCEPT ![a] =
                             <<[items |-> r.items, rejected |-> r.rejected,
                               asked |-> r.asked]>>]
           /\ warnings' = warnings \o r.pushed
    /\ UNCHANGED <<fanIn, persisted, outsideFan>>

\* Lines 176-331: once Promise.all has resolved (it rejects, and the run
\* with it, if a promise does), the global caps, the city enrichment, the
\* grouping by source and the calls of Persist; runOnlineIngest returns.
PersistAll ==
    /\ \A a \in Adapters : settled[a] # Absent /\ ~settled[a][1].rejected
    /\ persisted = Absent
    /\ persisted' = <<PersistCalls("place") \o PersistCalls("event")>>
    /\ UNCHANGED <<fanIn, settled, warnings, outsideFan>>

FanNext == (\E a \in Adapters : Settle(a)) \/ PersistAll

\* ------------------------------------------------------------------------
\* Geo+name matching (dedup.service.ts, findNearestPlaceByGeoAndName)
\* ------------------------------------------------------------------------
\* constructor(prisma, geoRadiusMeters = 100)
geoRadiusMeters == 100

\* The most places the prefilter query returns.
MaxNear == 2

\* The great-circle distances, in meters, from the incoming point to the
\* places the prefilter query returns (haversineMeters is not computed: a
\* place is given by its distance).
NearDistances == {0, 80, 90, 100, 101}

\* s.trim().toLowerCase().replace(/\s+/g, " ") on the names in use
normalizeStr(str) ==
    CASE str \in {"Cafe", "cafe", " cafe "} -> "cafe"
      [] str = "Bar" -> "bar"
      [] str \in {"", " "} -> ""
      [] OTHER -> str

NearInputs ==
    [name : {Null, "Cafe", " ", "Bar"},
     candidates : UNION {[1 .. n -> [name : {Null, "", " cafe ", "Bar"}, d : NearDistances]] :
                         n \in 0 .. MaxNear}]

\* (variant: the radius is not checked)
nearestStepAnyDistance(best, id, c, normName) ==
    LET cname == normalizeStr(IF c.name = Null THEN "" ELSE c.name)
        eff == IF normName # "" /\ cname # "" /\ cname # normName THEN 12 * c.d ELSE 10 * c.d
    IN  IF best = Absent \/ eff < best[1].d THEN <<[id |-> id, d |-> eff]>> ELSE best

\* One round of the loop over the candidates (lines 330-347); distances are
\* kept in tenths of a meter, so that d * 1.2 is 12 * d.
nearestStep(best, id, c, normName) ==
    IF c.d > geoRadiusMeters THEN best
    ELSE LET cname == normalizeStr(IF c.name = Null THEN "" ELSE c.name)
             eff == IF normName # "" /\ cname # "" /\ cname # normName
                    THEN 12 * c.d ELSE 10 * c.d
         IN  IF best = Absent \/ eff < best[1].d THEN <<[id |-> id, d |-> eff]>> ELSE best

RECURSIVE nearestLoop(_, _, _, _)
nearestLoop(best, candidates, i, normName) ==
    IF i > Len(candidates) THEN best
    ELSE nearestLoop(nearestStep(best, i, candidates[i], normName), candidates, i + 1, normName)

\* findNearestPlaceByGeoAndName, given the rows of its findMany; a place's
\* id is its position among them.
findNearestPlaceByGeoAndName(candidates, name) ==
    IF candidates = <<>> THEN Absent
    ELSE nearestLoop(Absent, candidates, 1,
                     IF Truthy(name) THEN normalizeStr(name) ELSE "")

NearIdle == nearIn = [name |-> Null, candidates |-> <<>>] /\ nearOut = Absent

NearInit == nearIn \in NearInputs /\ nearOut = Absent

\* Lines 198-207 of matchOrCreatePlace for a candidate with coordinates: the
\* match is returned, or the checks before the creation come next.
FindNearest ==
    /\ nearOut = Absent
    /\ LET candidate == findNearestPlaceByGeoAndName(nearIn.candidates, nearIn.name)
       IN  nearOut' = <<[candidate |-> candidate,
                         next |-> IF candidate # Absent THEN "return" ELSE "create"]>>
    /\ UNCHANGED <<nearIn, outsideNear>>

NearNext == FindNearest

\* ------------------------------------------------------------------------
\* Category links of one record (persist.service.ts, upsert*Categories)
\* ------------------------------------------------------------------------
\* The most slugs a candidate carries.
MaxSlugs == 3

\* The candidate's taxonomy slugs: keys of the category table, a slug the
\* table does not know, and the empty string.
SlugPool == {"", "place.unknown", "place.food_restaurant", "place.food_cafe_coffee"}

\* The category fields of the canonical record before the call: no link, a
\* link that is not primary, or a primary category.
CategoryFields ==
    {[links |-> {}, primary |-> {}, mainCategoryId |-> Absent],
     [links |-> {"place.food_cafe_coffee"}, primary |-> {}, mainCategoryId |-> Absent],
     [links |-> {"place.food_restaurant"}, primary |-> {"place.food_restaurant"},
      mainCategoryId |-> <<"place.food_restaurant">>]}

CatInputs ==
    [rec : CategoryFields,
     slugs : UNION {[1 .. n -> SlugPool] : n \in 0 .. MaxSlugs},
     fails : BOOLEAN]

CatIdle ==
    /\ catIn = [rec |-> [links |-> {}, primary |-> {}, mainCategoryId |-> Absent],
                slugs |-> <<>>, fails |-> FALSE]
    /\ catOut = Absent

CatInit == catIn \in CatInputs /\ catOut = Absent

\* this.upsertPlaceCategories(id, slugs, !!existing.mainCategoryId), as
\* ingestPlaces calls it (ingestEvents alike).
UpsertCategories ==
    /\ catOut = Absent
    /\ catOut' = <<upsertCategories(catIn.rec, catIn.slugs,
                                    catIn.rec.mainCategoryId # Absent, catIn.fails)>>
    /\ UNCHANGED <<catIn, outsideCat>>

CatNext == UpsertCategories

\* ------------------------------------------------------------------------
\* Specifications
\* ------------------------------------------------------------------------
Init == SearchInit /\ LockIdle /\ CacheInit /\ KeyIdle /\ MergeIdle /\ IngestIdle /\ ScoreIdle /\ FanIdle /\ NearIdle /\ CatIdle /\ CityIdle /\ RaceIdle

Spec == Init /\ [][SearchNext]_vars

InitLock == LockInit /\ CacheInit /\ KeyIdle /\ MergeIdle /\ IngestIdle /\ ScoreIdle /\ FanIdle /\ NearIdle /\ CatIdle /\ CityIdle /\ RaceIdle

\* The search handler over a Redis that may be unreachable at times.
InitOutage ==
    SearchStart /\ redisDown \in BOOLEAN /\ LockIdle /\ CacheInit /\ KeyIdle /\ MergeIdle /\ IngestIdle /\ ScoreIdle /\ FanIdle /\ NearIdle /\ CatIdle /\ CityIdle /\ RaceIdle

SpecOutage == InitOutage /\ [][OutageNext]_vars

SpecLock == InitLock /\ [][LockNext]_vars

\* The finally block of a settled call is run by the event loop, and Redis
\* answers its DEL.
SpecLockFair == SpecLock /\ \A c \in Callers : WF_vars(LockRelease(c))

InitCache ==
    /\ enabled = TRUE
    /\ redis = [data |-> Absent, fresh |-> FALSE, lock |-> FALSE]
    /\ SearchIdle /\ LockIdle /\ CacheInit /\ KeyIdle /\ MergeIdle /\ IngestIdle /\ ScoreIdle /\ FanIdle /\ NearIdle /\ CatIdle /\ CityIdle /\ RaceIdle

SpecCache == InitCache /\ [][CacheNext]_vars

InitKey ==
    /\ enabled = TRUE
    /\ redis = [data |-> Absent, fresh |-> FALSE, lock |-> FALSE]
    /\ SearchIdle /\ LockIdle /\ CacheInit /\ KeyInit /\ MergeIdle /\ IngestIdle /\ ScoreIdle /\ FanIdle /\ NearIdle /\ CatIdle /\ CityIdle /\ RaceIdle

SpecKey == InitKey /\ [][KeyNext]_vars

InitMerge ==
    /\ enabled = TRUE
    /\ redis = [data |-> Absent, fresh |-> FALSE, lock |-> FALSE]
    /\ SearchIdle /\ LockIdle /\ CacheInit /\ KeyIdle /\ MergeInit /\ IngestIdle /\ ScoreIdle /\ FanIdle /\ NearIdle /\ CatIdle /\ CityIdle /\ RaceIdle

SpecMerge == InitMerge /\ [][MergeNext]_vars

\* The ingestion pipeline: calls of the persist and dedup services, one
\* after another, on one database.
InitIngest ==
    /\ enabled = TRUE
    /\ redis = [data |-> Absent, fresh |-> FALSE, lock |-> FALSE]
    /\ SearchIdle /\ LockIdle /\ CacheInit /\ KeyIdle /\ MergeIdle /\ IngestIdle /\ ScoreIdle /\ FanIdle /\ NearIdle /\ CatIdle /\ CityIdle /\ RaceIdle

SpecIngest == InitIngest /\ [][IngestNext]_vars

\* One call of scoreByCanonicalId, whatever the digests of the id's seeds.
InitScore ==
    /\ enabled = TRUE
    /\ redis = [data |-> Absent, fresh |-> FALSE, lock |-> FALSE]
    /\ SearchIdle /\ LockIdle /\ CacheInit /\ KeyIdle /\ MergeIdle /\ IngestIdle
    /\ ScoreInit /\ FanIdle /\ NearIdle /\ CatIdle /\ CityIdle /\ RaceIdle

SpecScore == InitScore /\ [][ScoreNext]_vars

\* One run of runOnlineIngest, whatever its adapters do.
InitFan ==
    /\ enabled = TRUE
    /\ redis = [data |-> Absent, fresh |-> FALSE, lock |-> FALSE]
    /\ SearchIdle /\ LockIdle /\ CacheInit /\ KeyIdle /\ MergeIdle /\ IngestIdle
    /\ ScoreIdle /\ FanInit /\ NearIdle /\ CatIdle /\ CityIdle /\ RaceIdle

SpecFan == InitFan /\ [][FanNext]_vars

\* One call of the geo+name heuristic, whatever the prefilter returned.
InitNear ==
    /\ enabled = TRUE
    /\ redis = [data |-> Absent, fresh |-> FALSE, lock |-> FALSE]
    /\ SearchIdle /\ LockIdle /\ CacheInit /\ KeyIdle /\ MergeIdle /\ IngestIdle
    /\ ScoreIdle /\ FanIdle /\ NearInit /\ CatIdle /\ CityIdle /\ RaceIdle

SpecNear == InitNear /\ [][NearNext]_vars

\* One call of the category helper, whatever the record and the slugs.
InitCat ==
    /\ enabled = TRUE
    /\ redis = [data |-> Absent, fresh |-> FALSE, lock |-> FALSE]
    /\ SearchIdle /\ LockIdle /\ CacheInit /\ KeyIdle /\ MergeIdle /\ IngestIdle
    /\ ScoreIdle /\ FanIdle /\ NearIdle /\ CatInit /\ CityIdle /\ RaceIdle

SpecCat == InitCat /\ [][CatNext]_vars

\* The enrichment of one candidate, whatever the city table holds.
InitCity ==
    /\ enabled = TRUE
    /\ redis = [data |-> Absent, fresh |-> FALSE, lock |-> FALSE]
    /\ SearchIdle /\ LockIdle /\ CacheInit /\ KeyIdle /\ MergeIdle /\ IngestIdle
    /\ ScoreIdle /\ FanIdle /\ NearIdle /\ CatIdle /\ CityInit /\ RaceIdle

SpecCity == InitCity /\ [][CityNext]_vars

\* Concurrent batches on an empty store, whatever their candidates.
InitRace ==
    /\ enabled = TRUE
    /\ redis = [data |-> Absent, fresh |-> FALSE, lock |-> FALSE]
    /\ SearchIdle /\ LockIdle /\ CacheInit /\ KeyIdle /\ MergeIdle /\ IngestIdle
    /\ ScoreIdle /\ FanIdle /\ NearIdle /\ CatIdle /\ CityIdle /\ RaceInit

SpecRace == InitRace /\ [][RaceNext]_vars

\* ------------------------------------------------------------------------
\* Claims about the search handler (checked under Spec)
\* ------------------------------------------------------------------------
\* A recomputation (ingest, ranked DB read, cache store) is in progress for
\* request r, in the handler itself or in its background refresh.
Recomputing(r) ==
    \/ reqs[r].pc \in {"ingest", "dbread", "store1", "store2"}
    \/ reqs[r].bg \in {"ingest", "dbread", "store1", "store2"}

\* C2 (as claimed): with the cache enabled, at most one recomputation for the
\* cache key is in progress at any time, on the stale path and on the miss
\* path alike.
C2_OneRecomputation ==
    enabled => Cardinality({r \in Reqs : Recomputing(r)}) <= 1

\* C3: a request that found a stale entry is answered in the step that finds
\* it stale, with exactly the data it read from the cache; it has awaited no
\* ingest and no DB read of its own, and none of the background refresh had
\* run when the response was produced.
C3_StaleServedImmediately ==
    \A r \in Reqs :
        reqs[r].path = "stale" =>
            /\ reqs[r].pc = "done"
            /\ reqs[r].cached # Absent
            /\ reqs[r].resp = reqs[r].cached
            /\ reqs[r].fgIngest = 0 /\ reqs[r].fgDb = 0
            /\ reqs[r].workAtResp = 0

\* C3 witness: a stale request has its answer while its refresh is still to
\* read the DB, and the store has changed since the cached data was computed.
C3_Witness ==
    \E r \in Reqs :
        /\ reqs[r].path = "stale" /\ reqs[r].pc = "done"
        /\ reqs[r].bg = "dbread" /\ reqs[r].bgIngest = 1
        /\ reqs[r].resp # <<db>>

\* C5: a background refresh whose SET NX finds the lock key present returns
\* null: it moves to "skipped" without touching Redis or the store; and a
\* skipped refresh has called no ingest, no DB read and no cache store, while
\* its request has been answered with the stale data.
C5_SkipWhenLockHeld ==
    [][\A r \in Reqs :
          /\ (reqs[r].bg = "acquire" /\ redis.lock /\ reqs'[r] # reqs[r]) =>
                (reqs'[r].bg = "skipped" /\ redis' = redis /\ db' = db)
          /\ reqs'[r].bg = "skipped" =>
                /\ reqs'[r].bgIngest = 0 /\ reqs'[r].bgDb = 0
                /\ reqs'[r].bgStores = 0
                /\ reqs'[r].fgIngest = 0 /\ reqs'[r].fgDb = 0
                /\ reqs'[r].pc = "done" /\ reqs'[r].path = "stale"
                /\ reqs'[r].resp = reqs'[r].cached
                /\ reqs'[r].cached # Absent]_vars

\* C5 witness: one request's refresh holds the lock and is running while
\* another request, also answered from the stale entry, has been skipped.
C5_Witness ==
    \E r1, r2 \in Reqs :
        /\ r1 # r2
        /\ redis.lock
        /\ reqs[r1].bg \in {"ingest", "dbread", "store1", "store2"}
        /\ reqs[r2].bg = "skipped" /\ reqs[r2].path = "stale"

\* C7: for a page greater than 1 runOnlineIngest is never invoked, neither by
\* the handler nor by a background refresh; a first-page request on the miss
\* path has invoked it exactly once when it reads the DB, and never more.
C7_IngestOnlyOnFirstPage ==
    \A r \in Reqs :
        /\ page > 1 =>
              /\ reqs[r].fgIngest = 0 /\ reqs[r].bgIngest = 0
              /\ reqs[r].pc # "ingest" /\ reqs[r].bg # "ingest"
        /\ (page = 1 /\ reqs[r].path = "miss") =>
              /\ reqs[r].fgIngest <= 1
              /\ reqs[r].pc \in {"dbread", "store1", "store2", "done", "failed"}
                    => reqs[r].fgIngest = 1
              /\ reqs[r].pc = "ingest" => (reqs[r].fgIngest = 0 /\ reqs[r].fgDb = 0)

\* C7 witness: on a later page one request has gone through the miss path and
\* another one's background refresh has recomputed, both without ingest.
C7_Witness ==
    /\ page > 1
    /\ \E r1, r2 \in Reqs :
          /\ reqs[r1].path = "miss" /\ reqs[r1].pc = "done" /\ reqs[r1].fgDb = 1
          /\ reqs[r2].path = "stale" /\ reqs[r2].bg = "done" /\ reqs[r2].bgDb = 1

\* C11 (as claimed): a request fails only when its own DB read failed; a
\* rejected Redis command, whichever it is, never fails the request.
C11_RedisFailureIsMiss ==
    \A r \in Reqs : reqs[r].pc = "failed" => reqs[r].err = "db"

\* ------------------------------------------------------------------------
\* Claims about withLock (checked under SpecLock and SpecLockFair)
\* ------------------------------------------------------------------------
\* C1 (as claimed): with the cache enabled, at no time are two protected
\* functions for the same lock key executing, however long they run.
C1_MutualExclusion ==
    enabled => Cardinality({c \in Callers : calls[c].pc = "running"}) <= 1

\* Some call that has acquired the lock has not yet run its finally block.
ReleasePending == \E c \in Callers : calls[c].pc \in {"running", "resolved", "threw"}

ClaimedRead(o) ==
    IF o.age < o.f THEN [found |-> TRUE, data |-> o.data, stale |-> FALSE]
    ELSE IF o.age < o.f + o.s THEN [found |-> TRUE, data |-> o.data, stale |-> TRUE]
    ELSE NotFound

\* C6 (as claimed): as long as nothing else has written the key since
\* setJSONWithSWR(key, data, f, s), getJSONWithSWR(key) returns the data fresh
\* during the first f seconds, stale during the next s seconds and null
\* afterwards, for every f >= 0 and s >= 0.
C6_FreshStaleAbsent ==
    obs.active => getJSONWithSWR(obs.key) = ClaimedRead(obs)

\* C8 (as claimed): when invalidateByTags([t]) returns, no entry that was
\* stored with tag t and had not expired is left readable.
C8_InvalidateRemovesTagged ==
    invalidated => \A k \in CKeys : store[k].present => ~store[k].tagged

\* ------------------------------------------------------------------------
\* Claims about the cache key (checked under SpecKey)
\* ------------------------------------------------------------------------
Occurrences(x, sq) == Cardinality({i \in DOMAIN sq : sq[i] = x})
Elements(sq) == {sq[i] : i \in DOMAIN sq}

\* The two optional arrays hold the same entries, in any order.
SameUpToOrder(a, b) ==
    /\ a.given = b.given
    /\ Len(a.items) = Len(b.items)
    /\ \A x \in Elements(a.items) \cup Elements(b.items) :
          Occurrences(x, a.items) = Occurrences(x, b.items)

\* The two optional arrays hold the same entries, repeated or not, in any order.
SameUpToRepeats(a, b) ==
    /\ a.given = b.given
    /\ Elements(a.items) = Elements(b.items)

\* u (in 1e-6 degrees) and w round to the same 5-decimal value: they lie in
\* the same interval [10n - 5, 10n + 5).
SameRounded5(u, w) ==
    \E n \in {roundGeo(u) - 1, roundGeo(u), roundGeo(u) + 1} :
        /\ 10 * n - 5 <= u /\ u < 10 * n + 5
        /\ 10 * n - 5 <= w /\ w < 10 * n + 5

\* r (in 0.1 km) and t round to the same 0.5 km step: 2r and 2t, in 0.1 km,
\* lie in the same interval [10n - 5, 10n + 5).
SameHalfKm(r, t) ==
    \E n \in {roundRadius(r) - 1, roundRadius(r), roundRadius(r) + 1} :
        /\ 10 * n - 5 <= 2 * r /\ 2 * r < 10 * n + 5
        /\ 10 * n - 5 <= 2 * t /\ 2 * t < 10 * n + 5

SameBbox(a, b) ==
    /\ a.given = b.given
    /\ a.given => /\ SameRounded5(a.south, b.south) /\ SameRounded5(a.west, b.west)
                  /\ SameRounded5(a.north, b.north) /\ SameRounded5(a.east, b.east)

\* q and p agree in everything but what `arrays` allows for the array filters
\* and coordinates below the rounding precision.
SameButFor(q, p, categoriesAlike, sourcesAlike) ==
    /\ categoriesAlike /\ sourcesAlike
    /\ SameHalfKm(q.geo.radiusKm, p.geo.radiusKm)
    /\ SameRounded5(q.geo.lat, p.geo.lat) /\ SameRounded5(q.geo.lon, p.geo.lon)
    /\ SameBbox(q.bbox, p.bbox)
    /\ q.target = p.target /\ q.sort = p.sort /\ q.limit = p.limit
    /\ q.page = p.page /\ q.cityId = p.cityId /\ q.q = p.q

\* C9: once the handler has built the key of its request, every request that
\* differs from it only in the order of categorySlugs, the order of sources,
\* coordinates rounding to the same 5 decimals or a radius rounding to the
\* same 0.5 km step has that same key.
C9_EquivalentQueriesSameKey ==
    builtKey # Absent =>
        \A p \in Queries :
            SameButFor(query, p, SameUpToOrder(query.categorySlugs, p.categorySlugs),
                       SameUpToOrder(query.sources, p.sources))
                => <<cacheKeyOf(p)>> = builtKey

\* C9 witness: a key has been built for a request, and another request with
\* the categories and the sources in another order, another latitude, bbox
\* edge and radius is equivalent to it.
C9_Witness ==
    /\ builtKey # Absent
    /\ \E p \in Queries :
          /\ SameButFor(query, p, SameUpToOrder(query.categorySlugs, p.categorySlugs),
                        SameUpToOrder(query.sources, p.sources))
          /\ p.categorySlugs.items # query.categorySlugs.items
          /\ p.sources.items # query.sources.items
          /\ p.geo.lat # query.geo.lat
          /\ p.geo.radiusKm # query.geo.radiusKm
          /\ p.bbox.given /\ p.bbox.west # query.bbox.west

\* C10 (as claimed): every request that differs from the handler's only in
\* repeated entries of categorySlugs or sources has the same key.
C10_RepeatsSameKey ==
    builtKey # Absent =>
        \A p \in Queries :
            SameButFor(query, p, SameUpToRepeats(query.categorySlugs, p.categorySlugs),
                       SameUpToRepeats(query.sources, p.sources))
                => <<cacheKeyOf(p)>> = builtKey

\* ------------------------------------------------------------------------
\* Claims about the merge service (checked under SpecMerge)
\* ------------------------------------------------------------------------
\* The string fields of the two kinds of update.
MergedFields(kind) ==
    IF kind = "place" THEN {"name", "address", "imageUrl", "url"}
    ELSE {"title", "description", "imageUrl"}

\* C15: the update returned by buildPlaceUpdate / buildEventUpdate contains
\* name/title, address, description, imageUrl or url only if the existing
\* value is empty or null and the incoming value is non-empty, and then with
\* the incoming value.
C15_MergeNonRegression ==
    (mergeOut.done /\ mergeOut.update # Absent) =>
        \A f \in MergedFields(mergeIn.kind) :
            mergeOut.update[1][f] # Absent =>
                /\ mergeIn.existing[f] \in {Null, ""}
                /\ mergeIn.normalized[f] \notin {Null, ""}
                /\ mergeOut.update[1][f] = <<mergeIn.normalized[f]>>

\* C15 witness: an update was returned that fills one field while another
\* field, populated on both sides, is left out of it.
C15_Witness ==
    /\ mergeOut.done /\ mergeOut.update # Absent
    /\ \E f, g \in MergedFields(mergeIn.kind) :
          /\ mergeOut.update[1][f] # Absent
          /\ mergeIn.existing[g] = "old" /\ mergeIn.normalized[g] = "new"
          /\ mergeOut.update[1][g] = Absent

\* C16 (as claimed): a call whose sourceUpdatedAt is strictly older than
\* the data on record returns null.
C16_OlderSourceRejected ==
    (/\ mergeOut.done
     /\ mergeIn.sourceUpdatedAt # Absent
     /\ mergeIn.sourceUpdatedAt[1] < mergeIn.recordedAt[1]) => mergeOut.update = Absent

\* C17 (as claimed): buildPlaceUpdate returns null for a candidate that
\* brings a location and otherwise nothing for a field that is empty on the
\* existing place.
C17_NullWhenNothingChanges ==
    (/\ mergeOut.done /\ mergeIn.kind = "place"
     /\ mergeIn.normalized.location # Absent
     /\ \A f \in MergedFields("place") :
           IsEmpty(mergeIn.existing[f]) => IsEmpty(mergeIn.normalized[f])
     /\ mergeIn.existing.rating = Absent => mergeIn.normalized.rating = Absent
     /\ mergeIn.existing.reviewCount \in {Absent, <<0>>}
           => mergeIn.normalized.reviewCount = Absent)
        => mergeOut.update = Absent

\* ------------------------------------------------------------------------
\* Claims about the ingestion pipeline
\* ------------------------------------------------------------------------
\* The source row of the last call's candidate in the database the call
\* started from (0: none), by the kind of the call.
IsPlaceCall == run.op \in {"matchOrCreatePlace", "ingestPlaces"}
RowsBefore == IF IsPlaceCall THEN run.before.placeSource ELSE run.before.eventSource
IsMatchCall == run.op \in {"matchOrCreatePlace", "matchOrCreateEvent"}
SourceRowBefore == SourceRow(RowsBefore, run.items[1].source)

\* C18: whenever a source row exists for the candidate's (source,
\* externalId), matchOrCreatePlace / matchOrCreateEvent returns the canonical
\* id of that row with reason SOURCE and creates no record, whatever the
\* candidate's name, coordinates or cityId.
C18_FastPathBySource ==
    (IsMatchCall /\ SourceRowBefore # 0) =>
        /\ ~run.match.threw
        /\ run.match.id = RowsBefore[SourceRowBefore].canonicalId
        /\ run.match.reason = "SOURCE"
        /\ prisma = run.before

\* C18 witness: the fast path is taken for a place candidate without
\* coordinates whose source row exists.
C18_Witness ==
    /\ run.op = "matchOrCreatePlace"
    /\ SourceRowBefore # 0
    /\ run.items[1].location = Absent
    /\ run.match.reason = "SOURCE"

\* The last call is a match-or-create call for a candidate that has neither
\* a source row nor a heuristic match in the database.
NothingMatches ==
    /\ IsMatchCall
    /\ SourceRowBefore = 0
    /\ IF IsPlaceCall THEN PlacesNear(run.before, run.items[1]) = {}
                      ELSE EventsSame(run.before, run.items[1]) = {}

\* The candidate lacks what a new canonical record needs.
LacksPrecondition ==
    \/ ~Truthy(run.items[1].cityId)
    \/ IsPlaceCall /\ run.items[1].location = Absent

\* C19: when no source row and no heuristic match exists, matchOrCreatePlace
\* throws for a candidate without coordinates and for one without cityId,
\* matchOrCreateEvent throws for a candidate without cityId, and the store
\* is left unchanged.
C19_CreationPreconditions ==
    (NothingMatches /\ LacksPrecondition) =>
        (run.match.threw /\ prisma = run.before)

\* C19 witness: an event candidate without cityId was refused on a database
\* that holds other events.
C19_Witness ==
    /\ run.op = "matchOrCreateEvent"
    /\ NothingMatches /\ LacksPrecondition
    /\ run.before.event # <<>>
    /\ run.match.threw

\* The last two calls ran the same operation on the same single candidate,
\* no write was made to fail, and the first run reported no error.
TwiceInARow(op) ==
    /\ prev.op = op /\ run.op = op
    /\ Len(run.items) = 1 /\ prev.items = run.items
    /\ prev.failAt = "none" /\ run.failAt = "none"
    /\ prev.stats.errors = 0

\* The second run counted its one item as unchanged.
CountedUnchanged ==
    /\ run.stats.unchanged = 1
    /\ run.stats.updated = 0
    /\ run.stats.created = 0
    /\ run.stats.errors = 0

\* The number of source rows with the key of the candidate.
RowsOf(rows, key) ==
    Cardinality({i \in DOMAIN rows : rows[i].source = key.source
                                     /\ rows[i].externalId = key.externalId})

\* C12: ingesting one event candidate twice in a row, the second run reports
\* unchanged = 1 with updated = 0, created = 0 and errors = 0, leaves every
\* canonical Event field as it was after the first run, and leaves exactly
\* one EventSource row for the candidate's (source, externalId).
C12_EventIdempotency ==
    TwiceInARow("ingestEvents") =>
        /\ CountedUnchanged
        /\ prisma.event = run.before.event
        /\ RowsOf(prisma.eventSource, run.items[1].source) = 1

\* C13: ingesting one place candidate that has coordinates and a cityId
\* twice in a row, the second run reports unchanged = 1 with updated = 0 and
\* created = 0, issues no update of the canonical Place (each one is counted
\* in updated, and the place is as it was), and leaves exactly one
\* PlaceSource row for the candidate's (source, externalId).
C13_PlaceIdempotency ==
    (/\ TwiceInARow("ingestPlaces")
     /\ run.items[1].location # Absent
     /\ Truthy(run.items[1].cityId)) =>
        /\ CountedUnchanged
        /\ prisma.place = run.before.place
        /\ RowsOf(prisma.placeSource, run.items[1].source) = 1

\* C14: after any sequence of ingestEvents calls the store holds at most
\* one EventOccurrence per (eventId, startTime); the occurrences a call found
\* are still there for the same event and start: a re-ingest updates them
\* and creates no second one.
C14_OneOccurrencePerStart ==
    /\ \A i, j \in DOMAIN prisma.eventOccurrence :
          (/\ prisma.eventOccurrence[i].eventId = prisma.eventOccurrence[j].eventId
           /\ prisma.eventOccurrence[i].startTime = prisma.eventOccurrence[j].startTime)
          => i = j
    /\ \A i \in DOMAIN run.before.eventOccurrence :
          /\ i \in DOMAIN prisma.eventOccurrence
          /\ prisma.eventOccurrence[i].eventId = run.before.eventOccurrence[i].eventId
          /\ prisma.eventOccurrence[i].startTime = run.before.eventOccurrence[i].startTime

\* C14 witness: a second ingestEvents call gave the occurrence of an earlier
\* call another end time and added no occurrence.
C14_Witness ==
    /\ prev.op = "ingestEvents" /\ run.op = "ingestEvents"
    /\ Len(prisma.eventOccurrence) = Len(run.before.eventOccurrence)
    /\ \E i \in DOMAIN run.before.eventOccurrence :
          prisma.eventOccurrence[i].endTime # run.before.eventOccurrence[i].endTime

\* The last call is a call of the persist service; Rerun is that call from
\* the same database on other items.
IsIngestCall == run.op \in {"ingestPlaces", "ingestEvents"}
Rerun(items, failIdx) ==
    IF run.op = "ingestPlaces"
    THEN ingestPlaces(run.before, ProviderOf(run.items, "GOOGLE_PLACES"), items,
                      failIdx, run.failAt)
    ELSE ingestEvents(run.before, ProviderOf(run.items, "TICKETMASTER"), items,
                      failIdx, run.failAt, run.roll)

\* The loop of the last call after its first k items; the item k threw if
\* the loop was left through the catch block.
After(k) == Rerun(SubSeq(run.items, 1, k), IF run.failIdx <= k THEN run.failIdx ELSE 0)

\* The match-or-create step of an item on the database d threw, before any
\* write of the item: a precondition was violated or the create was rejected.
ThrewInMatch(d, k) ==
    IF run.op = "ingestPlaces"
    THEN matchOrCreatePlace(d, run.items[k],
                            run.failIdx = k /\ run.failAt = "create").threw
    ELSE matchOrCreateEvent(d, run.items[k],
                            run.failIdx = k /\ run.failAt = "create").threw

\* The last call without its item k.
Without(k) ==
    Rerun([i \in 1..(Len(run.items) - 1) |->
              IF i < k THEN run.items[i] ELSE run.items[i + 1]],
          IF run.failIdx = k THEN 0
          ELSE IF run.failIdx > k THEN run.failIdx - 1 ELSE run.failIdx)

\* From the loop state b to the loop state a, an item cost one error and
\* one warning.
OneErrorOneWarning(b, a) ==
    /\ a.stats.errors = b.stats.errors + 1
    /\ Len(a.stats.warnings) = Len(b.stats.warnings) + 1

\* The last call ended as the call w, but for one error: the same database
\* and the same counts.
AsIfWithout(w) ==
    /\ prisma = w.db
    /\ run.stats.created = w.stats.created
    /\ run.stats.updated = w.stats.updated
    /\ run.stats.unchanged = w.stats.unchanged
    /\ run.stats.errors = w.stats.errors + 1

MatchedId(d, k) ==
    IF run.op = "ingestPlaces" THEN matchOrCreatePlace(d, run.items[k], FALSE).id
    ELSE matchOrCreateEvent(d, run.items[k], FALSE).id

\* The candidate carries an end strictly after its start.
HasProviderEnd(it) ==
    /\ it.time # Absent
    /\ it.time[1].end # Absent
    /\ it.time[1].end[1] > it.time[1].start

\* The end time of the occurrence of (eventId, start) in d: Absent if it has
\* none, <<0>> if there is no such occurrence.
EndTimeOf(d, eventId, start) ==
    LET o == FindOccurrence(d, eventId, start)
    IN IF o = 0 THEN <<0>> ELSE d.eventOccurrence[o].endTime

\* C22: when an ingested event candidate carries an end strictly after its
\* start, the occurrence of (event, start) has that end as its endTime after
\* the item is ingested, whether the occurrence is new or existed with
\* another end.
C22_ProviderEndWins ==
    run.op = "ingestEvents" =>
        \A k \in DOMAIN run.items :
            LET b == After(k - 1)
                a == After(k)
                it == run.items[k]
            IN (~a.threw /\ HasProviderEnd(it)) =>
                   EndTimeOf(a.db, MatchedId(b.db, k), it.time[1].start) = it.time[1].end

\* C22 witness: an occurrence that had a synthesized end got the end of the
\* provider from a later call.
C22_Witness ==
    /\ run.op = "ingestEvents" /\ Len(run.items) = 1 /\ run.failAt = "none"
    /\ HasProviderEnd(run.items[1])
    /\ LET id == MatchedId(run.before, 1)
           start == run.items[1].time[1].start
       IN /\ EndTimeOf(run.before, id, start) = <<start + ExpectedDuration>>
          /\ EndTimeOf(prisma, id, start) = run.items[1].time[1].end

\* The durations the end of a candidate without a valid end may be
\* synthesized with: that of its first category slug, a random one if it
\* has none.
DurationsOf(categories) ==
    IF categories = <<>> THEN RandomMinutes
    ELSE IF categories[1] = "event.theatre_performing_arts" THEN {TheatreDuration}
    ELSE IF categories[1] = "event.concert_show" THEN {ExpectedDuration}
    ELSE RandomMinutes

\* C23: when an ingested event candidate has no end strictly after its
\* start, an occurrence of (event, start) that has an endTime keeps it;
\* otherwise endTime becomes start plus the expected duration of the
\* candidate's first category slug.
C23_SynthesizedEndNeverOverwrites ==
    run.op = "ingestEvents" =>
        \A k \in DOMAIN run.items :
            LET b == After(k - 1)
                a == After(k)
                it == run.items[k]
            IN (~a.threw /\ it.time # Absent /\ ~HasProviderEnd(it)) =>
                   LET id == MatchedId(b.db, k)
                       was == EndTimeOf(b.db, id, it.time[1].start)
                       now == EndTimeOf(a.db, id, it.time[1].start)
                   IN IF was \notin {Absent, <<0>>} THEN now = was
                      ELSE \E m \in DurationsOf(it.categories) :
                               now = <<it.time[1].start + m>>

\* C23 witness: a candidate without an end was ingested for an occurrence
\* that had the end of a provider, and the end stayed.
C23_Witness ==
    /\ run.op = "ingestEvents" /\ Len(run.items) = 1 /\ run.failAt = "none"
    /\ run.items[1].time # Absent /\ ~HasProviderEnd(run.items[1])
    /\ run.stats.errors = 0
    /\ LET id == MatchedId(run.before, 1)
           start == run.items[1].time[1].start
       IN /\ EndTimeOf(run.before, id, start) # <<0>>
          /\ EndTimeOf(run.before, id, start)
                 # <<start + resolveExpectedDurationForEvent(run.items[1].categories,
                                                            run.roll)>>
          /\ EndTimeOf(prisma, id, start) = EndTimeOf(run.before, id, start)

\* The source rows of a database, by the kind of the last call.
RowsIn(d) == IF run.op = "ingestPlaces" THEN d.placeSource ELSE d.eventSource

\* C24: for every item that ingestPlaces / ingestEvents processes without
\* error, exactly one source row exists for the item's (source, externalId)
\* once it is processed; the row references the canonical id the item was
\* matched to and carries the checksum of the candidate, whether or not a
\* canonical field changed.
C24_SourceRowAlwaysUpserted ==
    IsIngestCall =>
        \A k \in DOMAIN run.items :
            LET b == After(k - 1)
                a == After(k)
                key == run.items[k].source
            IN ~a.threw =>
                   /\ RowsOf(RowsIn(a.db), key) = 1
                   /\ RowsIn(a.db)[SourceRow(RowsIn(a.db), key)].canonicalId
                          = MatchedId(b.db, k)
                   /\ RowsIn(a.db)[SourceRow(RowsIn(a.db), key)].checksum = run.items[k]

\* C24 witness: an item counted as unchanged replaced the checksum of its
\* source row.
C24_Witness ==
    /\ IsIngestCall /\ Len(run.items) = 1
    /\ run.stats.unchanged = 1
    /\ SourceRowBefore # 0
    /\ RowsBefore[SourceRowBefore].checksum # run.items[1]
    /\ RowsIn(prisma)[SourceRow(RowsIn(prisma), run.items[1].source)].checksum
           = run.items[1]

\* The last call ingested one Ticketmaster event candidate that the store
\* did not know: a start, no end, a cityId and a first category of 120
\* minutes; no write was made to fail.
FreshTicketmasterEvent ==
    /\ run.op = "ingestEvents" /\ Len(run.items) = 1 /\ run.failAt = "none"
    /\ run.items[1].source.source = "TICKETMASTER"
    /\ run.items[1].time # Absent /\ run.items[1].time[1].end = Absent
    /\ Truthy(run.items[1].cityId)
    /\ run.items[1].categories # <<>>
    /\ run.items[1].categories[1] = "event.concert_show"
    /\ SourceRowBefore = 0
    /\ EventsSame(run.before, run.items[1]) = {}

\* The occurrences of an event in a database.
OccurrencesOf(d, eventId) ==
    {i \in DOMAIN d.eventOccurrence : d.eventOccurrence[i].eventId = eventId}

\* What C25 says of the store after the call: one occurrence of the new
\* event, ending 120 minutes after the start, and one EventSource row.
FreshEventStored ==
    LET id == Len(run.before.event) + 1
    IN /\ Cardinality(OccurrencesOf(prisma, id)) = 1
       /\ EndTimeOf(prisma, id, run.items[1].time[1].start)
              = <<run.items[1].time[1].start + ExpectedDuration>>
       /\ RowsOf(prisma.eventSource, run.items[1].source) = 1

\* C25: ingesting one Ticketmaster event candidate unknown to the store,
\* with a start, no end, a cityId and a first category of 120 minutes,
\* yields one EventOccurrence with endTime = start + 120 minutes, one
\* EventSource row for its key, and the statistics total = 1, created = 1,
\* updated = 0, unchanged = 0, errors = 0.
C25_FreshEventEndToEnd ==
    FreshTicketmasterEvent =>
        /\ FreshEventStored
        /\ run.stats.total = 1 /\ run.stats.created = 1 /\ run.stats.updated = 0
        /\ run.stats.unchanged = 0 /\ run.stats.errors = 0

\* The provider category strings stored in the audit field: the
\* comma-separated parts it is read back as, each a string without a comma.
StoredCategories(field) == {<<field[i]>> : i \in DOMAIN field}

\* The audit field of the canonical record id in d, <<>> if d has no such
\* record.
AuditField(d, id) ==
    IF run.op = "ingestPlaces"
    THEN IF id \in DOMAIN d.place THEN d.place[id].providerCategories ELSE <<>>
    ELSE IF id \in DOMAIN d.event THEN d.event[id].providerCategories ELSE <<>>

\* C26: after an ingest the set of provider category strings stored on the
\* canonical record is a superset of the set before, and equals the union
\* of that set and the candidate's non-empty raw categories.
C26_ProviderCategoriesOnlyGrow ==
    IsIngestCall =>
        \A k \in DOMAIN run.items :
            LET b == After(k - 1)
                a == After(k)
                id == MatchedId(b.db, k)
                raw == run.items[k].providerCategoriesRaw
            IN ~a.threw =>
                   StoredCategories(AuditField(a.db, id))
                     = StoredCategories(AuditField(b.db, id))
                       \cup {raw[i] : i \in {j \in DOMAIN raw : raw[j] # <<>>}}

\* The canonical records of the kind of the last call.
RecordsIn(d) == IF run.op = "ingestPlaces" THEN d.place ELSE d.event

\* C27: every canonical entity has at most one primary category link, and
\* a call leaves the mainCategoryId and the primary link of an entity that
\* had a primary category as they were.
C27_OnePrimaryCategory ==
    /\ \A e \in DOMAIN prisma.place : Cardinality(prisma.place[e].primary) <= 1
    /\ \A e \in DOMAIN prisma.event : Cardinality(prisma.event[e].primary) <= 1
    /\ IsIngestCall =>
          \A e \in DOMAIN RecordsIn(run.before) :
              RecordsIn(run.before)[e].primary # {} =>
                  /\ RecordsIn(prisma)[e].primary = RecordsIn(run.before)[e].primary
                  /\ RecordsIn(prisma)[e].mainCategoryId
                         = RecordsIn(run.before)[e].mainCategoryId

\* C27 witness: an entity that had a primary category got a link to another
\* category from a later call and kept its primary one.
C27_Witness ==
    /\ IsIngestCall
    /\ \E e \in DOMAIN RecordsIn(run.before) :
          /\ RecordsIn(run.before)[e].primary # {}
          /\ RecordsIn(prisma)[e].links # RecordsIn(run.before)[e].links
          /\ RecordsIn(prisma)[e].primary = RecordsIn(run.before)[e].primary

\* C29: for each item processed without error, if no canonical change was
\* written then one of unchanged (the source row existed) or created (it
\* did not) is incremented and updated is not; if a canonical change was
\* written (a category link included) then updated is incremented once,
\* created only if the source row did not exist, and unchanged is not.
C29_StatsClassification ==
    IsIngestCall =>
        \A k \in DOMAIN run.items :
            LET b == After(k - 1)
                a == After(k)
                hadRow == SourceRow(RowsIn(b.db), run.items[k].source) # 0
                changed == RecordsIn(a.db) # RecordsIn(b.db)
            IN ~a.threw =>
                   /\ a.stats.updated - b.stats.updated = IF changed THEN 1 ELSE 0
                   /\ a.stats.created - b.stats.created = IF hadRow THEN 0 ELSE 1
                   /\ a.stats.unchanged - b.stats.unchanged
                          = IF ~changed /\ hadRow THEN 1 ELSE 0

\* C30: a canonical Place that has a rating, or a reviewCount other than
\* zero, keeps them through every later ingestPlaces call.
C30_RatingKept ==
    run.op = "ingestPlaces" =>
        \A e \in DOMAIN run.before.place :
            /\ run.before.place[e].rating # Absent
                  => prisma.place[e].rating = run.before.place[e].rating
            /\ run.before.place[e].reviewCount \notin {Absent, <<0>>}
                  => prisma.place[e].reviewCount = run.before.place[e].reviewCount

\* ------------------------------------------------------------------------
\* Claims about scoring (checked under SpecScore)
\* ------------------------------------------------------------------------
\* C28: for every canonical id, each of the three values scoreByCanonicalId
\* returns is at least 0 and strictly less than 1, whatever the 32-bit digest
\* slice that is divided by 0xffffffff, its maximum value included.
C28_ScoresInUnitInterval ==
    scoreOut # Absent =>
        \A f \in {"popularityScore", "qualityScore", "freshnessScore"} :
            AtLeastZero(scoreOut[1][f]) /\ BelowOne(scoreOut[1][f])

\* ------------------------------------------------------------------------
\* Claims about the orchestration (checked under SpecFan)
\* ------------------------------------------------------------------------
\* The adapter is called at all: its source has a positive limit.
Queried(p) == p.source \in DOMAIN PROVIDER_LIMITS /\ PROVIDER_LIMITS[p.source] > 0

Threw(p) == Queried(p) /\ p.outcome.threw

\* The adapter returned a warning that says something.
Warned(p) ==
    Queried(p) /\ ~p.outcome.threw /\ p.outcome.warning # Absent /\ p.outcome.warning[1] # ""

\* The ids of the candidates the adapter returned.
ReturnedBy(p) ==
    IF Queried(p) /\ ~p.outcome.threw
    THEN {<<p.index, i>> : i \in 1 .. p.outcome.count}
    ELSE {}

\* The ids of the adapter's candidates within its per-provider cap.
KeptOf(p) ==
    {id \in ReturnedBy(p) : id[2] <= PROVIDER_LIMITS[p.source]}

\* The ids of the candidates of one kind that were passed on to Persist.
PassedOn(kind) ==
    UNION {{persisted[1][c].items[i].externalId : i \in DOMAIN persisted[1][c].items} :
           c \in {c \in DOMAIN persisted[1] : persisted[1][c].kind = kind}}

\* How many candidates of one kind the calls of Persist carry.
RECURSIVE CarriedFrom(_, _)
CarriedFrom(kind, c) ==
    IF c > Len(persisted[1]) THEN 0
    ELSE (IF persisted[1][c].kind = kind THEN Len(persisted[1][c].items) ELSE 0)
         + CarriedFrom(kind, c + 1)

\* The warnings array has exactly one string for each adapter that threw or
\* warned, and none for any other.
OneWarningEach ==
    \A a \in Adapters :
        LET p == fanIn.adapters[a]
        IN  Cardinality({w \in DOMAIN warnings : warnings[w][1] = p.name})
                = IF Threw(p) \/ Warned(p) THEN 1 ELSE 0

\* C21: provider failure isolation: whichever adapters throw or return a
\* warning, the candidates returned by every other adapter are all passed on
\* to Persist, and exactly one warning string is recorded for each adapter
\* that threw or warned.
C21_ProviderFailureIsolation ==
    persisted # Absent =>
        /\ \A a \in Adapters :
               LET p == fanIn.adapters[a]
               IN  ~(Threw(p) \/ Warned(p)) => ReturnedBy(p) \subseteq PassedOn(p.kind)
        /\ OneWarningEach

\* The candidates of one kind passed on to Persist are candidates that
\* adapters which did not throw returned within their per-provider caps, all
\* of them unless the global cap cuts them short; each is passed once, in
\* the call of its own source.
PassedUpToCaps(kind) ==
    LET kept == UNION {KeptOf(fanIn.adapters[a]) :
                       a \in {a \in Adapters : AdapterKind[a] = kind}}
    IN  /\ PassedOn(kind) \subseteq kept
        /\ Cardinality(PassedOn(kind)) = Min(GlobalIngestLimit, Cardinality(kept))
        /\ CarriedFrom(kind, 1) = Cardinality(PassedOn(kind))
        /\ \A c \in DOMAIN persisted[1] : \A i \in DOMAIN persisted[1][c].items :
               persisted[1][c].items[i].source = persisted[1][c].source

\* C21 (amended): whichever adapters throw or return a warning, the run
\* completes (no adapter's promise rejects, so Promise.all resolves and
\* Persist is called); the candidates of every adapter that did not throw are passed
\* on to Persist up to the per-provider cap and the global cap; exactly one
\* warning string is recorded for each adapter that threw or warned.
C21_IsolationUpToCaps ==
    /\ \A a \in Adapters : settled[a] # Absent => ~settled[a][1].rejected
    /\ persisted # Absent =>
           PassedUpToCaps("place") /\ PassedUpToCaps("event") /\ OneWarningEach

\* C21 witness: the run has completed; one adapter threw, one warned and its
\* candidates were passed on, and both caps cut candidates off.
C21_Witness ==
    /\ persisted # Absent
    /\ \E a \in Adapters : Threw(fanIn.adapters[a])
    /\ \E a \in Adapters :
           /\ Warned(fanIn.adapters[a])
           /\ PassedOn(AdapterKind[a]) \cap ReturnedBy(fanIn.adapters[a]) # {}
    /\ \E a \in Adapters : KeptOf(fanIn.adapters[a]) # ReturnedBy(fanIn.adapters[a])
    /\ \E a \in Adapters : ~(KeptOf(fanIn.adapters[a]) \subseteq PassedOn(AdapterKind[a]))
    /\ Len(warnings) = 2

\* ------------------------------------------------------------------------
\* Claims about geo+name matching (checked under SpecNear)
\* ------------------------------------------------------------------------
\* The places within the dedup radius of the incoming point.
WithinRadius == {i \in DOMAIN nearIn.candidates : nearIn.candidates[i].d <= geoRadiusMeters}

\* The normalised names of the incoming candidate and of a place.
IncomingName == IF nearIn.name = Null THEN "" ELSE normalizeStr(nearIn.name)
PlaceName(i) ==
    IF nearIn.candidates[i].name = Null THEN "" ELSE normalizeStr(nearIn.candidates[i].name)

\* Ten times the effective distance: the true distance, or 1.2 times it
\* when both names are non-empty and differ.
Effective(i) ==
    IF IncomingName # "" /\ PlaceName(i) # "" /\ IncomingName # PlaceName(i)
    THEN 12 * nearIn.candidates[i].d
    ELSE 10 * nearIn.candidates[i].d

\* C31: a place further away than the dedup radius is never selected; of
\* the others the selected one minimises the effective distance; if there
\* is none, no match is returned and the creation is attempted.
C31_NearestWithinRadius ==
    nearOut # Absent =>
        IF WithinRadius = {}
        THEN nearOut[1].candidate = Absent /\ nearOut[1].next = "create"
        ELSE /\ nearOut[1].candidate # Absent
             /\ nearOut[1].next = "return"
             /\ nearOut[1].candidate[1].id \in WithinRadius
             /\ nearOut[1].candidate[1].d = Effective(nearOut[1].candidate[1].id)
             /\ \A j \in WithinRadius : nearOut[1].candidate[1].d <= Effective(j)

\* C31 witness: the place selected is not the nearest one, whose name
\* differs, and a place beyond the radius or none was passed over.
C31_Witness ==
    /\ nearOut # Absent
    /\ nearOut[1].candidate # Absent
    /\ \E j \in WithinRadius :
           /\ nearIn.candidates[j].d < nearIn.candidates[nearOut[1].candidate[1].id].d
           /\ Effective(j) > Effective(nearOut[1].candidate[1].id)

\* C31 witness of the radius: every place returned by the prefilter lies
\* beyond the radius and the creation comes next.
C31_WitnessBeyond ==
    /\ nearOut # Absent
    /\ nearIn.candidates # <<>>
    /\ WithinRadius = {}
    /\ nearOut[1].next = "create"

\* ------------------------------------------------------------------------
\* Claims about the category links of one record (checked under SpecCat)
\* ------------------------------------------------------------------------
\* The slugs of the call that resolve to a row of the category table, in
\* the candidate's order.
ResolvedSlugs ==
    SelectSeq(catIn.slugs, LAMBDA g : \E k \in DOMAIN CategoryTable : CategoryTable[k] = g)

\* C32: when a record without a primary category is ingested with slugs of
\* which at least one resolves to a category row, the category made primary
\* (mainCategoryId and the primary link) is the first slug in the
\* candidate's order that resolves, and every other resolved slug gets a
\* link that is not primary.
C32_FirstResolvedSlugIsPrimary ==
    (/\ catOut # Absent
     /\ ~catOut[1].threw
     /\ catIn.rec.primary = {} /\ catIn.rec.mainCategoryId = Absent
     /\ ResolvedSlugs # <<>>)
    => /\ catOut[1].rec.mainCategoryId = <<ResolvedSlugs[1]>>
       /\ catOut[1].rec.primary = {ResolvedSlugs[1]}
       /\ \A i \in DOMAIN ResolvedSlugs : ResolvedSlugs[i] \in catOut[1].rec.links

\* ------------------------------------------------------------------------
\* Claims about the caps of the orchestration (checked under SpecFan)
\* ------------------------------------------------------------------------
\* The ids of the first n candidates the adapter's search returns.
FirstOf(p, n) == [i \in 1 .. Min(p.outcome.count, n) |-> <<p.index, i>>]

\* The ids of a sequence of candidates.
IdsOf(items) == [i \in DOMAIN items |-> items[i].externalId]

\* C33: an adapter whose PROVIDER_LIMITS entry is zero or missing is never
\* called; every other adapter is asked for limit items, and its result is
\* its first limit items at most.
C33_PerProviderLimit ==
    \A a \in Adapters :
        settled[a] # Absent =>
            LET p == fanIn.adapters[a]
                r == settled[a][1]
            IN  IF p.source \notin DOMAIN PROVIDER_LIMITS \/ PROVIDER_LIMITS[p.source] = 0
                THEN /\ r.asked = Absent
                     /\ r.items = <<>>
                     /\ \A w \in DOMAIN warnings : warnings[w][1] # p.name
                ELSE /\ r.asked = <<PROVIDER_LIMITS[p.source]>>
                     /\ Len(r.items) <= PROVIDER_LIMITS[p.source]
                     /\ ~p.outcome.threw =>
                            IdsOf(r.items) = FirstOf(p, PROVIDER_LIMITS[p.source])

\* C33 witness: an adapter of a source without an entry and one of a source
\* with a zero entry were passed over, though their searches had something
\* to return or to throw, and a third adapter returned more than its limit.
C33_Witness ==
    /\ \A a \in Adapters : settled[a] # Absent
    /\ fanIn.adapters[2].source = "PARTNER" /\ fanIn.adapters[2].outcome.count > 0
    /\ fanIn.adapters[3].source = "EVENTBRITE" /\ fanIn.adapters[3].outcome.threw
    /\ fanIn.adapters[1].outcome.count > PROVIDER_LIMITS[fanIn.adapters[1].source]
    /\ Len(settled[1][1].items) = PROVIDER_LIMITS[fanIn.adapters[1].source]

\* The ids of the capped results of the adapters of one kind, from adapter
\* a on, in the order of the adapters.
RECURSIVE CappedFrom(_, _)
CappedFrom(kind, a) ==
    IF a > Len(AdapterKind) THEN <<>>
    ELSE LET p == fanIn.adapters[a]
         IN  (IF AdapterKind[a] = kind /\ Queried(p) /\ ~p.outcome.threw
              THEN FirstOf(p, PROVIDER_LIMITS[p.source]) ELSE <<>>)
             \o CappedFrom(kind, a + 1)

\* The ids of the candidates of one kind handed to Persist, from call c on,
\* in the order of the calls.
RECURSIVE HandedFrom(_, _)
HandedFrom(kind, c) ==
    IF c > Len(persisted[1]) THEN <<>>
    ELSE (IF persisted[1][c].kind = kind THEN IdsOf(persisted[1][c].items) ELSE <<>>)
         \o HandedFrom(kind, c + 1)

\* C34: for each kind the candidates handed to Persist are the first
\* min(N, GLOBAL_INGEST_LIMIT) elements of the concatenation of the
\* adapters' capped results in the order of the adapters: at most
\* GLOBAL_INGEST_LIMIT of a kind are written, in their order.
C34_GlobalCap ==
    persisted # Absent =>
        \A kind \in {"place", "event"} :
            LET all == CappedFrom(kind, 1)
            IN  /\ HandedFrom(kind, 1) = SubSeq(all, 1, Min(Len(all), GlobalIngestLimit))
                /\ Len(HandedFrom(kind, 1)) <= GlobalIngestLimit

\* C34 witness: the adapters' capped results of one kind together exceeded
\* the global cap, and candidates of two sources were handed to Persist.
C34_Witness ==
    /\ persisted # Absent
    /\ Len(CappedFrom("place", 1)) > GlobalIngestLimit
    /\ Len(HandedFrom("place", 1)) = GlobalIngestLimit
    /\ \E c, e \in DOMAIN persisted[1] :
           /\ persisted[1][c].kind = "place" /\ persisted[1][e].kind = "place"
           /\ persisted[1][c].source # persisted[1][e].source

\* ------------------------------------------------------------------------
\* Claims about the city enrichment (checked under SpecCity)
\* ------------------------------------------------------------------------
\* The candidate has both coordinates.
HasPoint ==
    /\ cityIn.item.location # Absent
    /\ cityIn.item.location[1].lat # Absent
    /\ cityIn.item.location[1].lon # Absent

\* The rows whose inflated bounding box contains the candidate's point.
BoxesAround ==
    {i \in DOMAIN cityIn.cities :
        InInflatedBox(cityIn.cities[i], cityIn.item.location[1].lat[1],
                      cityIn.item.location[1].lon[1])}

\* The rows whose center no other row's center is nearer to the point than.
NearestCenters ==
    {i \in DOMAIN cityIn.cities :
        \A j \in DOMAIN cityIn.cities :
            MeridianDistance(cityIn.cities[i].lat, cityIn.item.location[1].lat[1])
                <= MeridianDistance(cityIn.cities[j].lat, cityIn.item.location[1].lat[1])}

\* The candidate came out with the city of one of the rows I, and the same
\* otherwise.
CityFrom(I) ==
    \E i \in I : cityOut[1] = [cityIn.item EXCEPT !.cityId = cityIn.cities[i].id]

\* The candidate came out with the query's city if it has one, and as it
\* was (unresolved, not dropped) if not.
CityFromQuery ==
    cityOut[1] = IF cityIn.query.cityId \notin {Null, ""}
                 THEN [cityIn.item EXCEPT !.cityId = cityIn.query.cityId]
                 ELSE cityIn.item

\* C35: a candidate that has a cityId is never modified; one without it
\* that has coordinates receives the id of a city whose inflated bounding
\* box contains the point, else the id of the city whose center is
\* nearest; the query's cityId is used only when the candidate has no
\* coordinates at all; otherwise the candidate stays unresolved.
C35_CityEnrichment ==
    cityOut # Absent =>
        IF cityIn.item.cityId \notin {Null, ""} THEN cityOut[1] = cityIn.item
        ELSE IF ~HasPoint THEN CityFromQuery
        ELSE IF BoxesAround # {} THEN CityFrom(BoxesAround)
        ELSE IF cityIn.cities # <<>> THEN CityFrom(NearestCenters)
        ELSE cityOut[1] = cityIn.item

\* C35 (amended): as C35, but the query's cityId is used when the candidate
\* has no coordinates and also when it has coordinates from which no city
\* can be resolved (the city table has no row).
C35_CityEnrichmentWithFallback ==
    cityOut # Absent =>
        IF cityIn.item.cityId \notin {Null, ""} THEN cityOut[1] = cityIn.item
        ELSE IF ~HasPoint THEN CityFromQuery
        ELSE IF BoxesAround # {} THEN CityFrom(BoxesAround)
        ELSE IF cityIn.cities # <<>> THEN CityFrom(NearestCenters)
        ELSE CityFromQuery

\* C35 witness: a candidate with coordinates came out with the query's
\* city because the city table had no row.
C35_Witness ==
    /\ cityOut # Absent
    /\ cityIn.item.cityId \in {Null, ""}
    /\ HasPoint
    /\ cityIn.cities = <<>>
    /\ cityOut[1].cityId = "Q"

\* C35 witness of the two passes: a point outside every inflated box came
\* out with the city of the nearest center, which is not the first row.
C35_WitnessNearest ==
    /\ cityOut # Absent
    /\ cityIn.item.cityId \in {Null, ""}
    /\ HasPoint
    /\ BoxesAround = {}
    /\ Len(cityIn.cities) = 2
    /\ cityOut[1].cityId = cityIn.cities[2].id
    /\ cityIn.cities[1].id # cityIn.cities[2].id

\* ------------------------------------------------------------------------
\* Claims about the free text and the cache key (checked under SpecKey)
\* ------------------------------------------------------------------------
\* C36: two search requests that differ in the free text q, all other
\* fields equal, are given different cache keys, so that the response
\* cached for one is never returned for the other.
C36_FreeTextInKey ==
    builtKey # Absent =>
        \A p \in Queries :
            (p.q # query.q /\ [p EXCEPT !.q = query.q] = query)
                => <<cacheKeyOf(p)>> # builtKey


(***************************************************************************)
(* Claims about orphan canonical records (checked under SpecIngest)        *)
(***************************************************************************)

\* The canonical records of a database, by the kind of the last call.
CanonicalIn(d) == IF run.op = "ingestPlaces" THEN d.place ELSE d.event

\* The canonical ids the last call created.
CreatedByCall == (Len(CanonicalIn(run.before)) + 1)..Len(CanonicalIn(prisma))

\* C40: after ingestPlaces / ingestEvents returns, every canonical place or
\* event the batch created is referenced by at least one source row, also
\* when a later step of the creating item (canonical update, occurrence
\* write, source upsert) failed and the item was counted as an error.
C40_NoOrphanCanonical ==
    IsIngestCall =>
        \A id \in CreatedByCall :
            \E i \in DOMAIN RowsIn(prisma) : RowsIn(prisma)[i].canonicalId = id

\* C40 holds of the calls in which no step after the create fails.
C40_NoOrphanWithoutLateFailure ==
    (IsIngestCall /\ (run.failIdx = 0 \/ run.failAt \in {"none", "create", "categories"})) =>
        \A id \in CreatedByCall :
            \E i \in DOMAIN RowsIn(prisma) : RowsIn(prisma)[i].canonicalId = id


(***************************************************************************)
(* Claims about concurrent batches (checked under SpecRace)                *)
(***************************************************************************)

AllDone == \A w \in Workers : workers[w].pc = "done"

\* The batches that resolved their candidate to the event e.
ResolvedTo(e) == {w \in Workers : workers[w].match = e}

\* C37: when two concurrently running batches both process the same
\* previously unknown candidate (same source and externalId), at most one
\* canonical event is created for it and both batches resolve the candidate
\* to that same canonical id.
C37_OneCanonicalUnderRace ==
    (AllDone /\ \A v, w \in Workers : workers[v].item.key = workers[w].item.key) =>
        /\ Len(raceDb.event) <= 1
        /\ \A v, w \in Workers : workers[v].match = workers[w].match

\* C37 holds of the batches that run one after the other.
C37_OneCanonicalInSequence == overlap \/ C37_OneCanonicalUnderRace

\* The occurrences of the event e at the start time of the candidates.
RacedOccurrencesOf(e) == {i \in DOMAIN raceDb.occurrence : raceDb.occurrence[i].eventId = e}

\* C38: under any interleaving of two concurrently running ingestEvents
\* batches whose candidates have the same start time and resolve to the
\* same canonical event, the store ends with exactly one occurrence for that
\* (eventId, startTime).
C38_OneOccurrenceUnderRace ==
    AllDone =>
        \A e \in DOMAIN raceDb.event :
            Cardinality(ResolvedTo(e)) >= 2 => Cardinality(RacedOccurrencesOf(e)) = 1

\* C38 holds of the batches that run one after the other.
C38_OneOccurrenceInSequence == overlap \/ C38_OneOccurrenceUnderRace

\* The categories of the primary links of the event e.
PrimaryLinksOf(e) ==
    {l.categoryId : l \in {k \in raceDb.link : k.eventId = e /\ k.isPrimary}}

\* C39: under any interleaving of two concurrently running ingests for the
\* same canonical event that has no primary category yet, where the two
\* candidates resolve to different first categories, the final state has
\* exactly one category link with isPrimary = true, and it is the link of
\* the category stored in mainCategoryId.
C39_OnePrimaryUnderRace ==
    AllDone =>
        \A e \in DOMAIN raceDb.event :
            (\E v, w \in ResolvedTo(e) : workers[v].item.category # workers[w].item.category)
                => /\ Cardinality(PrimaryLinksOf(e)) = 1
                   /\ raceDb.event[e].mainCategoryId # Absent
                   /\ PrimaryLinksOf(e) = {raceDb.event[e].mainCategoryId[1]}

\* C39 holds of the batches that run one after the other.
C39_OnePrimaryInSequence == overlap \/ C39_OnePrimaryUnderRace

====
